---- MODULE Spec2Model ----
(***************************************************************************)
(* Model of the section-structure engine of the USB PD specification       *)
(* parser: the section recognizers (usb_pd_parser.py and the root          *)
(* content_enhancer.py), the hierarchy validator, the coverage analyzer    *)
(* and the gap-filling pass of pdf_parser/content_enhancer.py.             *)
(*                                                                         *)
(* A Python str is a sequence of one-character strings, so that count,     *)
(* split, join, rsplit, strip and the regular expressions are computed     *)
(* character by character.  None is a one-element sequence whose element   *)
(* is not a character, which keeps it distinct from the empty string.      *)
(***************************************************************************)
EXTENDS Integers, Sequences, FiniteSets, TLC

VARIABLES
    line,              \* the text line handed to a recognizer
    page_num,          \* the page being scanned when the line is recognized
    recognizer,        \* which recognizer produced `sections`
    sections,          \* the Sections the recognizer returned
    spec_sections,     \* ContentEnhancer.spec_sections (root module), in memory
    toc_file,          \* records of the persisted ToC inventory
    spec_file,         \* records of the persisted full-body inventory
    hierarchy_result,  \* the dict HierarchyValidator.validate returned
    metrics,           \* the dict CoverageAnalyzer.analyze returned
    coverage,          \* the float ContentEnhancer.analyze_coverage returned
    pdf_text,          \* the Text Source: page number -> page text
    written,           \* the records of the last write_all on spec_file
    returned,          \* the last return value of extract_missing_content
    passes,            \* number of extract_missing_content calls so far
    pdf,               \* the PDF backing file: how it opens, and its pages
    toc_sections,      \* the list extract_toc_from_pdf returned last
    missing_pages,     \* missing_pages of the enhancer
    readable,          \* whether spec_file can be opened and parsed
    raised,            \* the exception the last call let through to its caller
    exit_status,       \* exit status of the process that ran main, -1 before
    printed,           \* what main printed last: "none", "success", "error"
    validation_result, \* the dict SchemaValidator.validate returned
    response,          \* the response of the parse_pdf endpoint
    runs,              \* number of HierarchyValidator.validate calls so far
    artifacts,         \* the metadata file and the report of process_pdf
    log,               \* the messages logged so far, as a set
    enhancements,      \* number of runs of the content enhancer's main so far
    jobs               \* the upload jobs of the server: position, PDF, folder

vars == <<line, page_num, recognizer, sections, spec_sections, toc_file,
          spec_file, hierarchy_result, metrics, coverage, pdf_text, written,
          returned, passes, pdf, toc_sections, missing_pages, readable, raised,
          exit_status, printed, validation_result, response, runs, artifacts,
          log, enhancements, jobs>>

(***************************************************************************)
(* Bounds of the model.                                                    *)
(***************************************************************************)
MaxPage == 2
MaxSections == 3
MaxIds == 3
NumPages == 3
MaxPasses == 2
MaxRuns == 2

(***************************************************************************)
(* Characters and strings.                                                 *)
(***************************************************************************)
None == <<"<None>">>

Digits == {"0", "1", "2", "3", "4", "5", "6", "7", "8", "9"}

Uppers == {"A", "B", "C", "D", "E", "F", "G", "H", "I", "J", "K", "L", "M",
           "N", "O", "P", "Q", "R", "S", "T", "U", "V", "W", "X", "Y", "Z"}

Lowers == {"a", "b", "c", "d", "e", "f", "g", "h", "i", "j", "k", "l", "m",
           "n", "o", "p", "q", "r", "s", "t", "u", "v", "w", "x", "y", "z"}

Spaces == {" ", "\t"}

IsDigit(c) == c \in Digits
IsUpper(c) == c \in Uppers
IsSpace(c) == c \in Spaces
IsWord(c) == c \in Digits \cup Uppers \cup Lowers \cup {"_"}

DigitValue(c) ==
    CASE c = "0" -> 0 [] c = "1" -> 1 [] c = "2" -> 2 [] c = "3" -> 3
      [] c = "4" -> 4 [] c = "5" -> 5 [] c = "6" -> 6 [] c = "7" -> 7
      [] c = "8" -> 8 [] c = "9" -> 9

DigitChar(d) ==
    CASE d = 0 -> "0" [] d = 1 -> "1" [] d = 2 -> "2" [] d = 3 -> "3"
      [] d = 4 -> "4" [] d = 5 -> "5" [] d = 6 -> "6" [] d = 7 -> "7"
      [] d = 8 -> "8" [] d = 9 -> "9"

\* s[i:j] of Python with 0 <= i <= j <= len(s), on 1-based sequences
Slice(s, i, j) == SubSeq(s, i + 1, j)

\* the indices of s that hold a character of the set cls
Positions(s, cls) == {i \in 1..Len(s) : s[i] \in cls}

AllIn(s, cls) == \A i \in 1..Len(s) : s[i] \in cls

Min(S) == CHOOSE x \in S : \A y \in S : x <= y
Max(S) == CHOOSE x \in S : \A y \in S : y <= x

\* the first index from i on that holds no whitespace, Len(s) + 1 if none
RECURSIVE FirstSolid(_, _)
FirstSolid(s, i) ==
    IF i > Len(s) THEN i
    ELSE IF IsSpace(s[i]) THEN FirstSolid(s, i + 1) ELSE i

\* the last index up to i that holds no whitespace, 0 if none
RECURSIVE LastSolid(_, _)
LastSolid(s, i) ==
    IF i < 1 THEN i
    ELSE IF IsSpace(s[i]) THEN LastSolid(s, i - 1) ELSE i

\* str.strip(): drop the leading and the trailing whitespace
Strip(s) == SubSeq(s, FirstSolid(s, 1), LastSolid(s, Len(s)))

\* str.count('.')
CountDots(s) == Cardinality(Positions(s, {"."}))

\* str.split('.'): the parts between the dots, empty parts kept
RECURSIVE SplitDots(_)
SplitDots(s) ==
    LET dots == Positions(s, {"."})
    IN  IF dots = {} THEN <<s>>
        ELSE <<SubSeq(s, 1, Min(dots) - 1)>>
             \o SplitDots(SubSeq(s, Min(dots) + 1, Len(s)))

\* '.'.join(parts)
RECURSIVE JoinDots(_)
JoinDots(parts) ==
    IF Len(parts) = 0 THEN <<>>
    ELSE IF Len(parts) = 1 THEN parts[1]
    ELSE parts[1] \o <<".">> \o JoinDots(Tail(parts))

\* s.rsplit('.', 1)[0]: what precedes the last dot (s itself without a dot)
RSplitHead(s) ==
    LET dots == Positions(s, {"."})
    IN  IF dots = {} THEN s ELSE SubSeq(s, 1, Max(dots) - 1)

\* int(s) for a string of ASCII digits
RECURSIVE ParseInt(_)
ParseInt(s) ==
    IF Len(s) = 0 THEN 0
    ELSE 10 * ParseInt(SubSeq(s, 1, Len(s) - 1)) + DigitValue(s[Len(s)])

\* str(n) for n >= 0
RECURSIVE IntToStr(_)
IntToStr(n) ==
    IF n < 10 THEN <<DigitChar(n)>>
    ELSE IntToStr(n \div 10) \o <<DigitChar(n % 10)>>

\* str.isdigit(): non-empty and digits only
IsDigitStr(s) == Len(s) > 0 /\ AllIn(s, Digits)

\* str.isupper(): no lower-case character and at least one upper-case one
IsUpperStr(s) == Positions(s, Lowers) = {} /\ Positions(s, Uppers) # {}

\* len(s.split()): the number of maximal runs of non-whitespace
WordCount(s) ==
    Cardinality({i \in 1..Len(s) :
        ~IsSpace(s[i]) /\ (i = 1 \/ IsSpace(s[i - 1]))})

\* the whole of s is digits, then any number of (dot, digits)
IsSectionId(s) ==
    /\ Len(s) > 0
    /\ AllIn(s, Digits \cup {"."})
    /\ IsDigit(s[1])
    /\ IsDigit(s[Len(s)])
    /\ \A i \in 1..(Len(s) - 1) : ~(s[i] = "." /\ s[i + 1] = ".")

(***************************************************************************)
(* The leading group of every numbered pattern: digits, then any number   *)
(* of (dot, digits), followed by whitespace.  The group holds no           *)
(* whitespace, so it is the text before the first whitespace character.    *)
(* The result is the length of the group, 0 when the line does not start   *)
(* with such a group.                                                      *)
(***************************************************************************)
IdGroupLen(s) ==
    LET ws == Positions(s, Spaces)
    IN  IF ws = {} THEN 0
        ELSE IF IsSectionId(SubSeq(s, 1, Min(ws) - 1)) THEN Min(ws) - 1
        ELSE 0

\* the length of the run of digits that ends the string
TrailingDigits(s) ==
    LET non == {i \in 1..Len(s) : ~IsDigit(s[i])}
    IN  IF non = {} THEN Len(s) ELSE Len(s) - Max(non)

(***************************************************************************)
(* Sections.                                                               *)
(***************************************************************************)
DocTitle ==
    <<"U", "S", "B", " ", "P", "D">>

\* Section(...) of usb_pd_parser.py and the dict of the enhancement recognizer
Section(section_id, title, page, level, parent_id) ==
    [section_id |-> section_id,
     title      |-> title,
     page       |-> page,
     level      |-> level,
     parent_id  |-> parent_id,
     full_path  |-> section_id \o <<" ">> \o title,
     doc_title  |-> DocTitle]

\* dict.get(key, default)
Get(r, key, default) == IF key \in DOMAIN r THEN r[key] ELSE default

\* Python truth of a str-or-None value: None and '' are false
Truthy(v) == v # None /\ v # <<>>

\* parent_parts = section_id.split('.'); '.'.join(parent_parts[:-1])
ParentBySplit(section_id) ==
    IF CountDots(section_id) > 0
    THEN LET parts == SplitDots(section_id)
         IN  JoinDots(SubSeq(parts, 1, Len(parts) - 1))
    ELSE None

\* section_id.rsplit('.', 1)[0] when '.' in section_id
ParentByRSplit(section_id) ==
    IF CountDots(section_id) > 0 THEN RSplitHead(section_id) ELSE None

LevelOfDotsOnly(section_id) == CountDots(section_id)

\* level = section_id.count('.') + 1
LevelOf(section_id) == CountDots(section_id) + 1

(***************************************************************************)
(* USBPDParser.section_patterns.  Each operator yields <<>> when the       *)
(* pattern does not match the line and <<groups>> when it does, where      *)
(* groups = <<group(1), group(2).strip(), group(3)>>.                      *)
(***************************************************************************)
\* "2.1.2 Section Title ... 53": id, whitespace, a title without dots, two
\* or more dots, optional whitespace, digits up to the end of the line
MatchDotLeader(s) ==
    LET k    == IdGroupLen(s)
        dots == {i \in Positions(s, {"."}) : i > k}
    IN  IF k = 0 \/ dots = {} THEN <<>>
        ELSE
          LET d     == Min(dots)
              nond  == {i \in (d + 1)..Len(s) : s[i] # "."}
              e     == IF nond = {} THEN Len(s) ELSE Min(nond) - 1
              mid   == SubSeq(s, k + 1, d - 1)
              tail  == SubSeq(s, e + 1, Len(s))
              nonws == {i \in 1..Len(tail) : ~IsSpace(tail[i])}
              num   == IF nonws = {} THEN <<>>
                       ELSE SubSeq(tail, Min(nonws), Len(tail))
          IN  IF Len(mid) >= 2 /\ e - d + 1 >= 2 /\ IsDigitStr(num)
              THEN << <<SubSeq(s, 1, k), Strip(mid), num>> >>
              ELSE <<>>

\* "2.1.2 Section Title 53": id, whitespace, a title without digits,
\* whitespace, digits up to the end of the line
MatchTrailingPage(s) ==
    LET k   == IdGroupLen(s)
        t   == TrailingDigits(s)
        mid == SubSeq(s, k + 1, Len(s) - t)
    IN  IF /\ k > 0
           /\ t > 0
           /\ Len(mid) >= 3
           /\ Positions(mid, Digits) = {}
           /\ IsSpace(mid[Len(mid)])
        THEN << <<SubSeq(s, 1, k), Strip(mid), SubSeq(s, Len(s) - t + 1, Len(s))>> >>
        ELSE <<>>

\* "2.1.2<TAB>Section Title<TAB>53": id, optional whitespace, tabs, a title
\* without tabs, tabs, digits up to the end of the line
MatchTabbed(s) ==
    LET k    == IdGroupLen(s)
        t    == TrailingDigits(s)
        qend == Len(s) - t
    IN  IF k = 0 \/ t = 0 \/ qend <= k THEN <<>>
        ELSE IF s[qend] # "\t" THEN <<>>
        ELSE
          LET nontab == {i \in 1..qend : s[i] # "\t"}
              tend   == Max(nontab)
              before == {i \in (k + 1)..tend : s[i] = "\t"}
          IN  IF before = {} THEN <<>>
              ELSE
                LET plast == Max(before)
                    lead  == SubSeq(s, k + 1, plast)
                IN  IF AllIn(lead, Spaces)
                    THEN << <<SubSeq(s, 1, k),
                              Strip(SubSeq(s, plast + 1, tend)),
                              SubSeq(s, Len(s) - t + 1, Len(s))>> >>
                    ELSE <<>>

\* for pattern in self.section_patterns: the first pattern that matches
FirstPatternMatch(s) ==
    IF MatchDotLeader(s) # <<>> THEN MatchDotLeader(s)
    ELSE IF MatchTrailingPage(s) # <<>> THEN MatchTrailingPage(s)
    ELSE MatchTabbed(s)

\* the Section built from one line, <<>> when no pattern matches it
SectionFromTocLine(raw, scanned) ==
    LET s == Strip(raw)
        m == IF s = <<>> THEN <<>> ELSE FirstPatternMatch(s)
    IN  IF m = <<>> THEN <<>>
        ELSE << Section(m[1][1], m[1][2], ParseInt(m[1][3]),
                        LevelOf(m[1][1]), ParentBySplit(m[1][1])) >>

RECURSIVE _extract_sections_from_text(_, _)
_extract_sections_from_text(lines, scanned) ==
    IF lines = <<>> THEN <<>>
    ELSE SectionFromTocLine(Head(lines), scanned)
         \o _extract_sections_from_text(Tail(lines), scanned)

(***************************************************************************)
(* The full-body recognizer of usb_pd_parser.py.                           *)
(***************************************************************************)
\* a numbered id, whitespace and an upper-case letter at the start of the
\* line, or an all-capitals line of at most 8 words and more than 5 characters
_is_section_header(s) ==
    LET k     == IdGroupLen(s)
        nonws == {i \in (k + 1)..Len(s) : ~IsSpace(s[i])}
    IN  \/ k > 0 /\ nonws # {} /\ IsUpper(s[Min(nonws)])
        \/ IsUpperStr(s) /\ WordCount(s) <= 8 /\ Len(s) > 5

ParseSectionHeaderEmbeddedPage(s, scanned) ==
    LET k == IdGroupLen(s)
        d == TrailingDigits(s)
    IN  IF k > 0 /\ Len(s) >= k + 2
        THEN << Section(SubSeq(s, 1, k), Strip(SubSeq(s, k + 1, Len(s))),
                        IF d > 0 THEN ParseInt(SubSeq(s, Len(s) - d + 1, Len(s)))
                        ELSE scanned,
                        LevelOf(SubSeq(s, 1, k)),
                        ParentBySplit(SubSeq(s, 1, k))) >>
        ELSE <<>>

\* id, whitespace, and the rest of the line as title; the page is the page
\* being scanned
_parse_section_header(s, scanned) ==
    LET k == IdGroupLen(s)
    IN  IF k > 0 /\ Len(s) >= k + 2
        THEN << Section(SubSeq(s, 1, k), Strip(SubSeq(s, k + 1, Len(s))),
                        scanned, LevelOf(SubSeq(s, 1, k)),
                        ParentBySplit(SubSeq(s, 1, k))) >>
        ELSE <<>>

\* the body of the loop over the lines of a page in
\* extract_all_sections_from_pdf
SectionFromBodyLine(raw, scanned) ==
    LET s == Strip(raw)
    IN  IF _is_section_header(s) THEN _parse_section_header(s, scanned)
        ELSE <<>>

(***************************************************************************)
(* The enhancement recognizer of the root content_enhancer.py.             *)
(***************************************************************************)
\* the character class of a title: word characters, whitespace and - , : ;
\* / & ( ) ' "
TitleChars ==
    Digits \cup Uppers \cup Lowers \cup Spaces
        \cup {"_", "-", ",", ":", ";", "/", "&", "(", ")", "'", "\""}

\* "2.1.2 Section Title": id, whitespace, an upper-case letter and one or
\* more title characters up to the end of the line
MatchNumbered(s) ==
    LET k     == IdGroupLen(s)
        nonws == {i \in (k + 1)..Len(s) : ~IsSpace(s[i])}
    IN  IF k = 0 \/ nonws = {} THEN <<>>
        ELSE
          LET b == Min(nonws)
          IN  IF /\ IsUpper(s[b])
                 /\ Len(s) >= b + 1
                 /\ AllIn(SubSeq(s, b + 1, Len(s)), TitleChars)
              THEN << <<SubSeq(s, 1, k), SubSeq(s, b, Len(s))>> >>
              ELSE <<>>

\* two or more capitals, then capitals, whitespace and hyphens only
MatchAllCaps(s) ==
    IF /\ Len(s) >= 3
       /\ IsUpper(s[1])
       /\ IsUpper(s[2])
       /\ AllIn(s, Uppers \cup Spaces \cup {"-"})
    THEN << <<s>> >>
    ELSE <<>>

AppendixWord ==
    <<"A", "p", "p", "e", "n", "d", "i", "x">>

\* "Appendix A: Title": the word, whitespace, one capital, an optional
\* colon or hyphen, and a non-empty rest of the line
MatchAppendix(s) ==
    LET n     == Len(AppendixWord)
        nonws == {i \in (n + 1)..Len(s) : ~IsSpace(s[i])}
    IN  IF Len(s) <= n \/ SubSeq(s, 1, n) # AppendixWord \/ nonws = {} THEN <<>>
        ELSE
          LET x == Min(nonws)
          IN  IF x > n + 1 /\ IsUpper(s[x]) /\ Len(s) > x
              THEN << << <<s[x]>>, Strip(SubSeq(s, x + 1, Len(s))) >> >>
              ELSE <<>>

\* max(existing_l1) + 1 if existing_l1 else 1
NextTopLevelId(existing) ==
    LET existing_l1 ==
            {ParseInt(existing[i].section_id) : i \in
                {j \in 1..Len(existing) :
                    existing[j].level = 1 /\ IsDigitStr(existing[j].section_id)}}
    IN  IF existing_l1 = {} THEN 1 ELSE Max(existing_l1) + 1

\* what one pattern's match returns: <<"return", sections>> or <<"continue">>
FromGroups(groups, scanned, existing) ==
    IF Len(groups) = 2
    THEN IF ~IsSectionId(groups[1]) THEN <<"continue">>
         ELSE <<"return",
                << Section(groups[1], Strip(groups[2]), scanned,
                           LevelOf(groups[1]), ParentByRSplit(groups[1])) >> >>
    ELSE <<"return",
           << Section(IntToStr(NextTopLevelId(existing)), Strip(groups[1]),
                      scanned, 1, None) >> >>

RECURSIVE TryPatterns(_, _, _)
TryPatterns(matches, scanned, existing) ==
    IF matches = <<>> THEN <<>>
    ELSE IF Head(matches) = <<>> THEN TryPatterns(Tail(matches), scanned, existing)
    ELSE LET r == FromGroups(Head(matches)[1], scanned, existing)
         IN  IF r[1] = "return" THEN r[2]
             ELSE TryPatterns(Tail(matches), scanned, existing)

_parse_section_from_line(raw, scanned, existing) ==
    LET s == Strip(raw)
    IN  TryPatterns(<<MatchNumbered(s), MatchAllCaps(s), MatchAppendix(s)>>,
                    scanned, existing)

(***************************************************************************)
(* The recognizers applied to one line.  A line is a head, a separator, a  *)
(* title and a tail, each drawn from a small set that holds the shapes     *)
(* the patterns tell apart and shapes that miss them by one character.     *)
(***************************************************************************)
\* how a line starts: an id, a malformed id, a word
LineHeads ==
    {<<>>,
     <<"1">>,
     <<"5">>,
     <<"2", ".", "1">>,
     <<"2", ".", "1", ".", "3">>,
     <<"1", ".">>,
     <<"1", ".", ".", "2">>,
     <<"A", "B">>,
     <<"A", "p", "p", "e", "n", "d", "i", "x">>,
     <<" ", "2", ".", "1">>}

\* what separates the head from the title
LineSeps ==
    {<<>>,
     <<" ">>,
     <<"\t">>,
     <<" ", " ">>}

\* the title part
LineTitles ==
    {<<>>,
     <<"A">>,
     <<"A", "b">>,
     <<"A", " ", "b">>,
     <<"A", "B", "C", "D", "E", "F">>,
     <<"a">>,
     <<"A", ".", "b">>,
     <<"A", "1">>,
     <<"B", ":", " ", "T">>}

\* how a line ends: a page reference, a dot leader, nothing
LineTails ==
    {<<>>,
     <<" ", "5">>,
     <<".", ".", "5">>,
     <<" ", ".", ".", ".", " ", "5", "3">>,
     <<"\t", "5">>,
     <<" ", ".", "5">>,
     <<" ", "1", "1">>,
     <<" ", "-">>}

Lines ==
    {h \o p \o t \o e : h \in LineHeads, p \in LineSeps,
                        t \in LineTitles, e \in LineTails}

\* the level-1 ids the in-memory inventory of the enhancer may hold
ExistingInventories ==
    {<<>>,
     << Section(<<"1">>, <<"A">>, 1, 1, None) >>,
     << Section(<<"1">>, <<"A">>, 1, 1, None),
        Section(<<"1", ".", "1">>, <<"B">>, 1, 2, <<"1">>),
        Section(<<"4">>, <<"C">>, 2, 1, None) >>}

NoResult == [total_sections |-> 0]
NoMetrics == [total_toc |-> 0]
NoText == [p \in {} |-> <<>>]
NoCoverage == <<>>
NoPdf == [state |-> "ok", pages |-> <<>>]
NoException == "none"
NoValidation == [total_records |-> 0]
NoResponse == [status |-> 0]
NoArtifacts == [written |-> FALSE]
NoJobs == <<>>

\* the variables of the document pass, the schema validator and the endpoint
pipeline_vars ==
    <<pdf, toc_sections, missing_pages, readable, raised, exit_status,
      printed, validation_result, response, runs, artifacts, log,
      enhancements, jobs>>

\* their values when no document pass, validation or request has run
PipelineIdle ==
    /\ pdf = NoPdf
    /\ toc_sections = <<>>
    /\ missing_pages = {}
    /\ readable = TRUE
    /\ raised = NoException
    /\ exit_status = -1
    /\ printed = "none"
    /\ validation_result = NoValidation
    /\ response = NoResponse
    /\ runs = 0
    /\ artifacts = NoArtifacts
    /\ log = {}
    /\ enhancements = 0
    /\ jobs = NoJobs

InitRecognizer ==
    /\ line \in Lines
    /\ spec_sections \in ExistingInventories
    /\ page_num = 0
    /\ recognizer = "none"
    /\ sections = <<>>
    /\ toc_file = <<>>
    /\ spec_file = <<>>
    /\ hierarchy_result = NoResult
    /\ metrics = NoMetrics
    /\ coverage = NoCoverage
    /\ pdf_text = NoText
    /\ written = <<>>
    /\ returned = 0
    /\ passes = 0
    /\ PipelineIdle

RecognizerFrame ==
    /\ UNCHANGED <<line, spec_sections, toc_file, spec_file, hierarchy_result,
                   metrics, coverage, pdf_text, written, returned, passes>>
    /\ UNCHANGED pipeline_vars

\* USBPDParser._extract_sections_from_text on a page that holds the line
ExtractSectionsFromText ==
    /\ recognizer = "none"
    /\ \E p \in 1..MaxPage :
        /\ page_num' = p
        /\ sections' = _extract_sections_from_text(<<line>>, p)
    /\ recognizer' = "toc"
    /\ RecognizerFrame

\* the header test and parse of extract_all_sections_from_pdf on the line
ParseSectionHeader ==
    /\ recognizer = "none"
    /\ \E p \in 1..MaxPage :
        /\ page_num' = p
        /\ sections' = SectionFromBodyLine(line, p)
    /\ recognizer' = "body"
    /\ RecognizerFrame

\* ContentEnhancer._parse_section_from_line (root module) on the line
ParseSectionFromLine ==
    /\ recognizer = "none"
    /\ \E p \in 1..MaxPage :
        /\ page_num' = p
        /\ sections' = _parse_section_from_line(line, p, spec_sections)
    /\ recognizer' = "enhance"
    /\ RecognizerFrame

NextRecognizer ==
    \/ ExtractSectionsFromText
    \/ ParseSectionHeader
    \/ ParseSectionFromLine

SpecRecognizer == InitRecognizer /\ [][NextRecognizer]_vars

\* C1: every Section a recognizer emits has level = (dots of section_id) + 1
\* and parent_id = section_id without its last dot-component, None when
\* section_id has no dot.
ExpectedParent(section_id) ==
    IF \E i \in 1..Len(section_id) : section_id[i] = "."
    THEN SubSeq(section_id, 1,
                Max({i \in 1..Len(section_id) : section_id[i] = "."}) - 1)
    ELSE None

C1_LevelAndParentFromId ==
    \A i \in 1..Len(sections) :
        /\ sections[i].level =
               Cardinality({j \in 1..Len(sections[i].section_id) :
                               sections[i].section_id[j] = "."}) + 1
        /\ sections[i].parent_id = ExpectedParent(sections[i].section_id)

\* a recognizer emitted "2.1.3" with parent "2.1" at level 3
C1_Witness ==
    /\ recognizer = "toc"
    /\ Len(sections) = 1
    /\ sections[1].section_id = <<"2", ".", "1", ".", "3">>
    /\ sections[1].parent_id = <<"2", ".", "1">>
    /\ sections[1].level = 3

(***************************************************************************)
(* HierarchyValidator (pdf_parser/hierarchy_validator.py).  A check        *)
(* yields <<"ok", entries>> with the zero or one entry it returns, or      *)
(* <<"raise">> when it reads a key the record does not have.               *)
(***************************************************************************)
_create_hierarchy_result ==
    [total_sections          |-> 0,
     orphaned_sections       |-> <<>>,
     level_inconsistencies   |-> <<>>,
     parent_child_mismatches |-> <<>>]

\* section_lookup = {s['section_id']: s for s in sections}: the keys
LookupKeys(secs) == {secs[i].section_id : i \in 1..Len(secs)}

\* section_lookup[id]: a later record replaces an earlier one of the same id
Lookup(secs, id) ==
    secs[Max({i \in 1..Len(secs) : secs[i].section_id = id})]

OrphanCheckWithoutTruthTest(section, secs) ==
    LET parent_id == Get(section, "parent_id", None)
    IN  IF parent_id \notin LookupKeys(secs)
        THEN IF "title" \notin DOMAIN section THEN <<"raise">>
             ELSE <<"ok", << [section_id     |-> section.section_id,
                              title          |-> section.title,
                              missing_parent |-> parent_id] >> >>
        ELSE <<"ok", <<>> >>

_check_orphaned_sections(section, secs) ==
    LET parent_id == Get(section, "parent_id", None)
    IN  IF Truthy(parent_id) /\ parent_id \notin LookupKeys(secs)
        THEN IF "title" \notin DOMAIN section THEN <<"raise">>
             ELSE <<"ok", << [section_id     |-> section.section_id,
                              title          |-> section.title,
                              missing_parent |-> parent_id] >> >>
        ELSE <<"ok", <<>> >>

LevelCheckAgainstParent(section) ==
    IF "level" \notin DOMAIN section THEN <<"raise">>
    ELSE LET parent_id == Get(section, "parent_id", None)
             expected_level == IF Truthy(parent_id)
                               THEN CountDots(parent_id) + 2 ELSE 1
         IN  IF section.level # expected_level
             THEN IF "title" \notin DOMAIN section THEN <<"raise">>
                  ELSE <<"ok", << [section_id     |-> section.section_id,
                                   title          |-> section.title,
                                   actual_level   |-> section.level,
                                   expected_level |-> expected_level] >> >>
             ELSE <<"ok", <<>> >>

LevelCheckOnlyBelow(section) ==
    IF "level" \notin DOMAIN section THEN <<"raise">>
    ELSE LET expected_level == CountDots(section.section_id) + 1
         IN  IF section.level < expected_level
             THEN IF "title" \notin DOMAIN section THEN <<"raise">>
                  ELSE <<"ok", << [section_id     |-> section.section_id,
                                   title          |-> section.title,
                                   actual_level   |-> section.level,
                                   expected_level |-> expected_level] >> >>
             ELSE <<"ok", <<>> >>

_check_level_consistency(section) ==
    IF "level" \notin DOMAIN section THEN <<"raise">>
    ELSE LET expected_level == CountDots(section.section_id) + 1
         IN  IF section.level # expected_level
             THEN IF "title" \notin DOMAIN section THEN <<"raise">>
                  ELSE <<"ok", << [section_id     |-> section.section_id,
                                   title          |-> section.title,
                                   actual_level   |-> section.level,
                                   expected_level |-> expected_level] >> >>
             ELSE <<"ok", <<>> >>

ParentChildCheckNotBelow(section, secs) ==
    LET parent_id == Get(section, "parent_id", None)
    IN  IF Truthy(parent_id) /\ parent_id \in LookupKeys(secs)
        THEN LET parent_section == Lookup(secs, parent_id)
             IN  IF "level" \notin DOMAIN parent_section THEN <<"raise">>
                 ELSE IF parent_section.level >= section.level
                 THEN <<"ok", << [section_id            |-> section.section_id,
                                  parent_id             |-> parent_id,
                                  section_level         |-> section.level,
                                  parent_level          |-> parent_section.level,
                                  expected_parent_level |-> section.level - 1] >> >>
                 ELSE <<"ok", <<>> >>
        ELSE <<"ok", <<>> >>

ParentChildCheckSameLevel(section, secs) ==
    LET parent_id == Get(section, "parent_id", None)
    IN  IF Truthy(parent_id) /\ parent_id \in LookupKeys(secs)
        THEN LET parent_section == Lookup(secs, parent_id)
             IN  IF "level" \notin DOMAIN parent_section THEN <<"raise">>
                 ELSE IF parent_section.level # section.level
                 THEN <<"ok", << [section_id            |-> section.section_id,
                                  parent_id             |-> parent_id,
                                  section_level         |-> section.level,
                                  parent_level          |-> parent_section.level,
                                  expected_parent_level |-> section.level] >> >>
                 ELSE <<"ok", <<>> >>
        ELSE <<"ok", <<>> >>

_check_parent_child_relationship(section, secs) ==
    LET parent_id == Get(section, "parent_id", None)
    IN  IF Truthy(parent_id) /\ parent_id \in LookupKeys(secs)
        THEN LET parent_section == Lookup(secs, parent_id)
             IN  IF "level" \notin DOMAIN parent_section THEN <<"raise">>
                 ELSE IF parent_section.level # section.level - 1
                 THEN <<"ok", << [section_id            |-> section.section_id,
                                  parent_id             |-> parent_id,
                                  section_level         |-> section.level,
                                  parent_level          |-> parent_section.level,
                                  expected_parent_level |-> section.level - 1] >> >>
                 ELSE <<"ok", <<>> >>
        ELSE <<"ok", <<>> >>

ErrorInsteadOfResult(result) == [error |-> "KeyError"]

\* except Exception as e: hierarchy_result['error'] = str(e), for a key that
\* a record does not have
WithError(result) == result @@ [error |-> "KeyError"]

\* the same handler when jsonlines.open or the reader fails
WithFileError(result) == result @@ [error |-> "FileNotFoundError"]

\* the loop of validate from record i on; an exception ends it and leaves
\* the lists as they are
RECURSIVE ValidateFrom(_, _, _)
ValidateFrom(secs, i, result) ==
    IF i > Len(secs) THEN result
    ELSE
      LET orphaned == _check_orphaned_sections(secs[i], secs)
      IN  IF orphaned[1] = "raise" THEN WithError(result)
          ELSE
            LET r1 == [result EXCEPT !.orphaned_sections = @ \o orphaned[2]]
                inconsistency == _check_level_consistency(secs[i])
            IN  IF inconsistency[1] = "raise" THEN WithError(r1)
                ELSE
                  LET r2 == [r1 EXCEPT !.level_inconsistencies =
                                           @ \o inconsistency[2]]
                      mismatch == _check_parent_child_relationship(secs[i], secs)
                  IN  IF mismatch[1] = "raise" THEN WithError(r2)
                      ELSE ValidateFrom(secs, i + 1,
                               [r2 EXCEPT !.parent_child_mismatches =
                                              @ \o mismatch[2]])

\* HierarchyValidator.validate on a readable file that holds secs
validate(secs) ==
    LET result == [_create_hierarchy_result EXCEPT !.total_sections = Len(secs)]
    IN  IF \E i \in 1..Len(secs) : "section_id" \notin DOMAIN secs[i]
        THEN WithError(result)
        ELSE ValidateFrom(secs, 1, result)

(***************************************************************************)
(* The validator on a persisted inventory.  Records hold the fields the    *)
(* validator reads.  The inventories are all sequences of at most          *)
(* MaxSections records over a small universe with wrong levels, missing,   *)
(* empty and self-referring parents and repeated ids, and the inventories  *)
(* of the test suite.                                                      *)
(***************************************************************************)
Rec(section_id, title, level, parent_id) ==
    [section_id |-> section_id, title |-> title, level |-> level,
     parent_id |-> parent_id]

Id1 == <<"1">>
Id11 == <<"1", ".", "1">>
Id111 == <<"1", ".", "1", ".", "1">>
Id12 == <<"1", ".", "2">>
Id2 == <<"2">>
Id21 == <<"2", ".", "1">>
Id31 == <<"3", ".", "1">>
Id311 == <<"3", ".", "1", ".", "1">>

ValidatorRecords ==
    {Rec(id, <<"T">>, lv, par) :
        id \in {Id1, Id11}, lv \in {1, 2, 3}, par \in {None, <<>>, Id1}}

RECURSIVE SeqsUpTo(_, _)
SeqsUpTo(S, n) ==
    IF n = 0 THEN {<<>>}
    ELSE LET shorter == SeqsUpTo(S, n - 1)
         IN  shorter \cup {Append(q, x) : q \in shorter, x \in S}

\* valid_sections of test_hierarchy_validator.py
ValidSections ==
    <<Rec(Id1, <<"I">>, 1, None),
      Rec(Id11, <<"O">>, 2, Id1),
      Rec(Id111, <<"S">>, 3, Id11),
      Rec(Id2, <<"P">>, 1, None),
      Rec(Id21, <<"Q">>, 2, Id2)>>

\* valid_sections without section "2"
ValidSectionsWithout2 ==
    <<Rec(Id1, <<"I">>, 1, None),
      Rec(Id11, <<"O">>, 2, Id1),
      Rec(Id111, <<"S">>, 3, Id11),
      Rec(Id21, <<"Q">>, 2, Id2)>>

\* invalid_sections of test_hierarchy_validator.py
InvalidSections ==
    <<Rec(Id1, <<"I">>, 1, None),
      Rec(Id11, <<"O">>, 2, Id1),
      Rec(Id111, <<"S">>, 3, Id11),
      Rec(Id21, <<"Q">>, 2, Id2),
      Rec(Id311, <<"X">>, 2, Id31)>>

\* "1.1" filed under "2": levels fit, the parent is not the id's prefix
MisparentedSections ==
    <<Rec(Id2, <<"P">>, 1, None),
      Rec(Id11, <<"O">>, 2, Id2)>>

ValidatorInventories ==
    SeqsUpTo(ValidatorRecords, MaxSections)
        \cup {ValidSections, ValidSectionsWithout2, InvalidSections,
              MisparentedSections}

InitValidator ==
    /\ spec_file \in ValidatorInventories
    /\ hierarchy_result = NoResult
    /\ line = <<>>
    /\ spec_sections = <<>>
    /\ page_num = 0
    /\ recognizer = "none"
    /\ sections = <<>>
    /\ toc_file = <<>>
    /\ metrics = NoMetrics
    /\ coverage = NoCoverage
    /\ pdf_text = NoText
    /\ written = <<>>
    /\ returned = 0
    /\ passes = 0
    /\ PipelineIdle

ValidateAccumulating ==
    /\ runs < MaxRuns
    /\ hierarchy_result' =
           IF ~readable THEN WithFileError(_create_hierarchy_result)
           ELSE IF runs = 0 THEN validate(spec_file)
           ELSE LET again == validate(spec_file)
                IN  [again EXCEPT
                       !.orphaned_sections =
                           hierarchy_result.orphaned_sections \o @,
                       !.level_inconsistencies =
                           hierarchy_result.level_inconsistencies \o @,
                       !.parent_child_mismatches =
                           hierarchy_result.parent_child_mismatches \o @]
    /\ raised' = NoException
    /\ runs' = runs + 1
    /\ UNCHANGED <<line, page_num, recognizer, sections, spec_sections,
                   toc_file, spec_file, metrics, coverage, pdf_text, written,
                   returned, passes>>
    /\ UNCHANGED <<pdf, toc_sections, missing_pages, readable, exit_status,
                   printed, validation_result, response, artifacts, log,
                   enhancements, jobs>>

\* HierarchyValidator.validate(spec_file): a fresh result on every call; a
\* file that cannot be opened or parsed leaves it as created, with the error
Validate ==
    /\ runs < MaxRuns
    /\ hierarchy_result' =
           IF readable THEN validate(spec_file)
           ELSE WithFileError(_create_hierarchy_result)
    /\ raised' = NoException
    /\ runs' = runs + 1
    /\ UNCHANGED <<line, page_num, recognizer, sections, spec_sections,
                   toc_file, spec_file, metrics, coverage, pdf_text, written,
                   returned, passes>>
    /\ UNCHANGED <<pdf, toc_sections, missing_pages, readable, exit_status,
                   printed, validation_result, response, artifacts, log,
                   enhancements, jobs>>

NextValidator == Validate

SpecValidator == InitValidator /\ [][NextValidator]_vars

Validated == "orphaned_sections" \in DOMAIN hierarchy_result

\* the k-th smallest element of a set of indices
Kth(idx, k) == CHOOSE i \in idx : Cardinality({j \in idx : j <= i}) = k

Dots(id) == Cardinality({j \in 1..Len(id) : id[j] = "."})

HasParent(r) == r.parent_id # None /\ r.parent_id # <<>>

Resolves(r) == \E j \in 1..Len(spec_file) : spec_file[j].section_id = r.parent_id

\* C2: validate lists a section in orphaned_sections, with missing_parent its
\* parent_id, exactly when it has a non-empty parent_id that is the id of no
\* section of the inventory; without section "2" the only orphan is "2.1".
C2_OrphanedIffParentMissing ==
    Validated =>
      LET idx == {i \in 1..Len(spec_file) :
                     HasParent(spec_file[i]) /\ ~Resolves(spec_file[i])}
          o   == hierarchy_result.orphaned_sections
      IN  /\ Len(o) = Cardinality(idx)
          /\ \A k \in 1..Len(o) :
                /\ o[k].section_id = spec_file[Kth(idx, k)].section_id
                /\ o[k].missing_parent = spec_file[Kth(idx, k)].parent_id
          /\ spec_file = ValidSectionsWithout2 =>
                /\ Len(o) = 1
                /\ o[1].section_id = Id21
                /\ o[1].missing_parent = Id2

\* section "2" is omitted and validate reported the one orphan "2.1"
C2_Witness ==
    /\ Validated
    /\ spec_file = ValidSectionsWithout2
    /\ Len(hierarchy_result.orphaned_sections) = 1
    /\ hierarchy_result.orphaned_sections[1].missing_parent = Id2

StoredParent(r) ==
    spec_file[CHOOSE j \in 1..Len(spec_file) :
                 /\ spec_file[j].section_id = r.parent_id
                 /\ \A m \in (j + 1)..Len(spec_file) :
                       spec_file[m].section_id # r.parent_id]

\* C4: validate lists a section in parent_child_mismatches exactly when it
\* has a non-empty parent_id that resolves to a section of the inventory
\* whose stored level is not the section's stored level minus 1.
C4_MismatchIffParentLevelNotOneLess ==
    Validated =>
      LET idx == {i \in 1..Len(spec_file) :
                     /\ HasParent(spec_file[i])
                     /\ Resolves(spec_file[i])
                     /\ StoredParent(spec_file[i]).level # spec_file[i].level - 1}
          m   == hierarchy_result.parent_child_mismatches
      IN  /\ Len(m) = Cardinality(idx)
          /\ \A k \in 1..Len(m) :
                /\ m[k].section_id = spec_file[Kth(idx, k)].section_id
                /\ m[k].parent_id = spec_file[Kth(idx, k)].parent_id
                /\ m[k].section_level = spec_file[Kth(idx, k)].level
                /\ m[k].parent_level = StoredParent(spec_file[Kth(idx, k)]).level

\* a section at level 1 under a resolving parent at level 1 was reported,
\* and a section without parent_id in the same inventory was not
C4_Witness ==
    /\ Validated
    /\ Len(spec_file) = 2
    /\ spec_file[1] = Rec(Id1, <<"T">>, 1, None)
    /\ spec_file[2] = Rec(Id11, <<"T">>, 1, Id1)
    /\ Len(hierarchy_result.parent_child_mismatches) = 1
    /\ hierarchy_result.parent_child_mismatches[1].section_id = Id11

WellFormed(secs) ==
    /\ \A i \in 1..Len(secs) : secs[i].level = Dots(secs[i].section_id) + 1
    /\ \A i \in 1..Len(secs) :
          secs[i].parent_id # None =>
              \E j \in 1..Len(secs) :
                  /\ secs[j].section_id = secs[i].parent_id
                  /\ secs[j].level = secs[i].level - 1
    /\ \A i, j \in 1..Len(secs) :
          secs[i].section_id = secs[j].section_id => i = j

\* C5: on a well-formed inventory validate returns total_sections = number
\* of records and three empty defect lists.
C5_WellFormedHasNoDefects ==
    (Validated /\ WellFormed(spec_file)) =>
        /\ hierarchy_result.total_sections = Len(spec_file)
        /\ hierarchy_result.orphaned_sections = <<>>
        /\ hierarchy_result.level_inconsistencies = <<>>
        /\ hierarchy_result.parent_child_mismatches = <<>>
        /\ "error" \notin DOMAIN hierarchy_result

\* the five well-formed sections of the test suite were validated
C5_Witness ==
    /\ Validated
    /\ spec_file = ValidSections
    /\ WellFormed(spec_file)
    /\ hierarchy_result.total_sections = 5

(***************************************************************************)
(* The validator on storage it cannot read and on records that lack a      *)
(* field it reads.  A record is one of three records that give an orphan,  *)
(* a level entry or no defect, whole or without one of section_id, level   *)
(* and title.                                                              *)
(***************************************************************************)
\* the record r without the key k
Without(r, k) == [f \in DOMAIN r \ {k} |-> r[f]]

ErrorBase ==
    {Rec(Id1, <<"T">>, 1, None),
     Rec(Id11, <<"T">>, 1, Id1),
     Rec(Id11, <<"T">>, 2, Id2)}

MalformedRecords ==
    ErrorBase
        \cup {Without(r, k) : r \in ErrorBase,
                              k \in {"section_id", "level", "title"}}

InitValidatorErrors ==
    /\ \/ readable = TRUE /\ spec_file \in SeqsUpTo(MalformedRecords, MaxSections)
       \/ readable = FALSE /\ spec_file = <<>>
    /\ hierarchy_result = NoResult
    /\ line = <<>>
    /\ spec_sections = <<>>
    /\ page_num = 0
    /\ recognizer = "none"
    /\ sections = <<>>
    /\ toc_file = <<>>
    /\ metrics = NoMetrics
    /\ coverage = NoCoverage
    /\ pdf_text = NoText
    /\ written = <<>>
    /\ returned = 0
    /\ passes = 0
    /\ pdf = NoPdf
    /\ toc_sections = <<>>
    /\ missing_pages = {}
    /\ raised = NoException
    /\ exit_status = -1
    /\ printed = "none"
    /\ validation_result = NoValidation
    /\ response = NoResponse
    /\ runs = 0
    /\ artifacts = NoArtifacts
    /\ log = {}
    /\ enhancements = 0
    /\ jobs = NoJobs

SpecValidatorErrors == InitValidatorErrors /\ [][NextValidator]_vars

Has(i, k) == k \in DOMAIN spec_file[i]

AllHaveIds == \A i \in 1..Len(spec_file) : Has(i, "section_id")

ParentOf(i) == IF Has(i, "parent_id") THEN spec_file[i].parent_id ELSE None

ResolvesAt(i) ==
    /\ ParentOf(i) \notin {None, <<>>}
    /\ \E j \in 1..Len(spec_file) : spec_file[j].section_id = ParentOf(i)

OrphanAt(i) ==
    /\ ParentOf(i) \notin {None, <<>>}
    /\ ~\E j \in 1..Len(spec_file) : spec_file[j].section_id = ParentOf(i)

\* the last record that has the id: the one the lookup keeps
LastWithId(id) ==
    CHOOSE j \in 1..Len(spec_file) :
        /\ spec_file[j].section_id = id
        /\ \A m \in (j + 1)..Len(spec_file) : spec_file[m].section_id # id

LevelOffAt(i) ==
    Has(i, "level") /\ spec_file[i].level # Dots(spec_file[i].section_id) + 1

MismatchAt(i) ==
    /\ ResolvesAt(i)
    /\ Has(i, "level")
    /\ "level" \in DOMAIN spec_file[LastWithId(ParentOf(i))]
    /\ spec_file[LastWithId(ParentOf(i))].level # spec_file[i].level - 1

\* the check of record i that reads a field the record (or its parent) lacks:
\* 1 the orphan check, 2 the level check, 3 the parent check, 0 none
FailStage(i) ==
    IF OrphanAt(i) /\ ~Has(i, "title") THEN 1
    ELSE IF ~Has(i, "level") \/ (LevelOffAt(i) /\ ~Has(i, "title")) THEN 2
    ELSE IF ResolvesAt(i)
            /\ "level" \notin DOMAIN spec_file[LastWithId(ParentOf(i))] THEN 3
    ELSE 0

Failing == {i \in 1..Len(spec_file) : FailStage(i) > 0}

FirstFailure == IF Failing = {} THEN Len(spec_file) + 1 ELSE Min(Failing)

\* the records whose defect was found before the failure, per list
OrphansFound ==
    {i \in 1..Len(spec_file) :
        /\ i <= FirstFailure
        /\ OrphanAt(i)
        /\ (i < FirstFailure \/ FailStage(i) > 1)}

LevelsFound ==
    {i \in 1..Len(spec_file) :
        /\ i <= FirstFailure
        /\ LevelOffAt(i)
        /\ (i < FirstFailure \/ FailStage(i) = 3)}

MismatchesFound ==
    {i \in 1..Len(spec_file) : i < FirstFailure /\ MismatchAt(i)}

IdsOf(entries) == [k \in 1..Len(entries) |-> entries[k].section_id]

IdsAt(idx) == [k \in 1..Cardinality(idx) |-> spec_file[Kth(idx, k)].section_id]

ResultIsWhole ==
    {"total_sections", "orphaned_sections", "level_inconsistencies",
     "parent_child_mismatches"} \subseteq DOMAIN hierarchy_result

\* C14 as stated: validate never raises, and when the storage cannot be read
\* or a record lacks section_id, level or title, the result carries an error
\* string beside total_sections and the three lists.
C14_MalformedGivesError ==
    runs >= 1 =>
        /\ raised = NoException
        /\ ResultIsWhole
        /\ (\/ ~readable
            \/ \E i \in 1..Len(spec_file) :
                  \E k \in {"section_id", "level", "title"} : ~Has(i, k))
           => "error" \in DOMAIN hierarchy_result

\* C14 amended: validate never raises; the result always holds
\* total_sections and the three lists; it carries an error exactly when the
\* storage cannot be read or a check reads a field that a record lacks
\* (section_id of any record, level, title of a record with a defect to
\* report, level of the parent), and the lists then hold the defects found
\* before the failure.
C14_FailedReadGivesError ==
    runs >= 1 =>
        /\ raised = NoException
        /\ ResultIsWhole
        /\ IF ~readable
           THEN /\ "error" \in DOMAIN hierarchy_result
                /\ hierarchy_result.total_sections = 0
                /\ hierarchy_result.orphaned_sections = <<>>
                /\ hierarchy_result.level_inconsistencies = <<>>
                /\ hierarchy_result.parent_child_mismatches = <<>>
           ELSE /\ hierarchy_result.total_sections = Len(spec_file)
                /\ IF ~AllHaveIds
                   THEN /\ "error" \in DOMAIN hierarchy_result
                        /\ hierarchy_result.orphaned_sections = <<>>
                        /\ hierarchy_result.level_inconsistencies = <<>>
                        /\ hierarchy_result.parent_child_mismatches = <<>>
                   ELSE /\ "error" \in DOMAIN hierarchy_result <=> Failing # {}
                        /\ IdsOf(hierarchy_result.orphaned_sections)
                               = IdsAt(OrphansFound)
                        /\ IdsOf(hierarchy_result.level_inconsistencies)
                               = IdsAt(LevelsFound)
                        /\ IdsOf(hierarchy_result.parent_child_mismatches)
                               = IdsAt(MismatchesFound)

\* an orphan was reported and then a record without level ended the run
C14_Witness ==
    /\ runs >= 1
    /\ readable
    /\ Len(spec_file) = 2
    /\ spec_file[1] = Rec(Id11, <<"T">>, 2, Id2)
    /\ spec_file[2] = Without(Rec(Id1, <<"T">>, 1, None), "level")
    /\ "error" \in DOMAIN hierarchy_result
    /\ Len(hierarchy_result.orphaned_sections) = 1
    /\ hierarchy_result.total_sections = 2

RECURSIVE Gcd(_, _)
Gcd(a, b) == IF b = 0 THEN a ELSE Gcd(b, a % b)

Fraction(num, den) == <<num \div Gcd(num, den), den \div Gcd(num, den)>>

\* set(s['section_id'] for s in sections)
_extract_section_ids(secs) == {secs[i].section_id : i \in 1..Len(secs)}

CalculateMetricsSwappedOnly(toc_ids, spec_ids) ==
    LET total_toc == Cardinality(toc_ids)
        common    == Cardinality(toc_ids \cap spec_ids)
    IN  [total_toc  |-> total_toc,
         total_spec |-> Cardinality(spec_ids),
         common     |-> common,
         toc_only   |-> Cardinality(spec_ids \ toc_ids),
         spec_only  |-> Cardinality(toc_ids \ spec_ids),
         coverage_percentage |->
             IF total_toc > 0 THEN Fraction(common * 100, total_toc)
             ELSE <<0, 1>>]

_calculate_metrics(toc_ids, spec_ids) ==
    LET total_toc == Cardinality(toc_ids)
        common    == Cardinality(toc_ids \cap spec_ids)
    IN  [total_toc  |-> total_toc,
         total_spec |-> Cardinality(spec_ids),
         common     |-> common,
         toc_only   |-> Cardinality(toc_ids \ spec_ids),
         spec_only  |-> Cardinality(spec_ids \ toc_ids),
         coverage_percentage |->
             IF total_toc > 0 THEN Fraction(common * 100, total_toc)
             ELSE <<0, 1>>]

\* CoverageAnalyzer.analyze on two readable files
analyze(toc, spec) ==
    _calculate_metrics(_extract_section_ids(toc), _extract_section_ids(spec))

AnalyzeCoverageOverRecords(toc, spec) ==
    LET toc_ids  == _extract_section_ids(toc)
        spec_ids == _extract_section_ids(spec)
    IN  IF Len(toc) > 0
        THEN Fraction(Cardinality(toc_ids \cap spec_ids) * 100, Len(toc))
        ELSE <<0, 1>>

\* ContentEnhancer.analyze_coverage
analyze_coverage(toc, spec) ==
    LET toc_ids  == _extract_section_ids(toc)
        spec_ids == _extract_section_ids(spec)
    IN  IF Cardinality(toc_ids) > 0
        THEN Fraction(Cardinality(toc_ids \cap spec_ids) * 100,
                      Cardinality(toc_ids))
        ELSE <<0, 1>>

\* a record as the coverage code reads it: the id and the page
PageRec(section_id, page) ==
    [section_id |-> section_id, title |-> <<"T">>, page |-> page]

CoverageRecords == {PageRec(Id1, 1), PageRec(Id11, 2), PageRec(Id2, 4)}

\* toc_data and spec_data of test_coverage_analyzer.py, as analyze reads them
TestTocIds ==
    <<PageRec(Id1, 1), PageRec(Id11, 2), PageRec(Id12, 3), PageRec(Id2, 4)>>

TestSpecIds ==
    <<PageRec(Id1, 1), PageRec(Id11, 2), PageRec(Id2, 4)>>

CoverageInventories ==
    SeqsUpTo(CoverageRecords, MaxIds) \cup {TestTocIds, TestSpecIds}

InitCoverage ==
    /\ toc_file \in CoverageInventories
    /\ spec_file \in CoverageInventories
    /\ metrics = NoMetrics
    /\ coverage = NoCoverage
    /\ line = <<>>
    /\ spec_sections = <<>>
    /\ page_num = 0
    /\ recognizer = "none"
    /\ sections = <<>>
    /\ hierarchy_result = NoResult
    /\ pdf_text = NoText
    /\ written = <<>>
    /\ returned = 0
    /\ passes = 0
    /\ PipelineIdle

\* CoverageAnalyzer.analyze(toc_file, spec_file)
Analyze ==
    /\ metrics' = analyze(toc_file, spec_file)
    /\ UNCHANGED <<line, page_num, recognizer, sections, spec_sections,
                   toc_file, spec_file, hierarchy_result, coverage, pdf_text,
                   written, returned, passes>>
    /\ UNCHANGED pipeline_vars

\* ContentEnhancer.analyze_coverage()
AnalyzeCoverage ==
    /\ coverage' = analyze_coverage(toc_file, spec_file)
    /\ UNCHANGED <<line, page_num, recognizer, sections, spec_sections,
                   toc_file, spec_file, hierarchy_result, metrics, pdf_text,
                   written, returned, passes>>
    /\ UNCHANGED pipeline_vars

NextCoverage == Analyze \/ AnalyzeCoverage

SpecCoverage == InitCoverage /\ [][NextCoverage]_vars

Analyzed == "common" \in DOMAIN metrics

InToc(id) == \E i \in 1..Len(toc_file) : toc_file[i].section_id = id
InSpec(id) == \E i \in 1..Len(spec_file) : spec_file[i].section_id = id
AllIds == {Id1, Id11, Id12, Id2}

\* C6: the metrics are the sizes of the reference ids, the candidate ids,
\* their intersection and their two differences, and coverage_percentage is
\* common / total_toc * 100, 0 for an empty reference; 4 reference ids with 3
\* of them in a 3-id candidate give 75, toc_only 1, spec_only 0.
C6_MetricsAreSetSizes ==
    Analyzed =>
        /\ metrics.total_toc = Cardinality({id \in AllIds : InToc(id)})
        /\ metrics.total_spec = Cardinality({id \in AllIds : InSpec(id)})
        /\ metrics.common = Cardinality({id \in AllIds : InToc(id) /\ InSpec(id)})
        /\ metrics.toc_only = Cardinality({id \in AllIds : InToc(id) /\ ~InSpec(id)})
        /\ metrics.spec_only = Cardinality({id \in AllIds : InSpec(id) /\ ~InToc(id)})
        /\ metrics.coverage_percentage[1] * metrics.total_toc
               = metrics.common * 100 * metrics.coverage_percentage[2]
        /\ metrics.coverage_percentage[2] > 0
        /\ toc_file = <<>> => metrics.coverage_percentage = <<0, 1>>
        /\ (toc_file = TestTocIds /\ spec_file = TestSpecIds) =>
               /\ metrics.coverage_percentage = <<75, 1>>
               /\ metrics.toc_only = 1
               /\ metrics.spec_only = 0

\* the test's two inventories were analyzed: 75 percent, one id only in the ToC
C6_Witness ==
    /\ Analyzed
    /\ toc_file = TestTocIds
    /\ spec_file = TestSpecIds
    /\ metrics.total_toc = 4
    /\ metrics.coverage_percentage = <<75, 1>>

\* C7 as stated: for every inventory A, coverage of A against itself is 100.
C7_SelfCoverageIs100 ==
    toc_file = spec_file =>
        /\ Analyzed => metrics.coverage_percentage = <<100, 1>>
        /\ coverage # NoCoverage => coverage = <<100, 1>>

\* C7 amended: for every non-empty inventory A, coverage of A against itself
\* is 100; for the empty inventory it is 0.
C7_SelfCoverageIs100UnlessEmpty ==
    toc_file = spec_file =>
        /\ Analyzed => metrics.coverage_percentage
                           = IF toc_file = <<>> THEN <<0, 1>> ELSE <<100, 1>>
        /\ coverage # NoCoverage => coverage
                           = IF toc_file = <<>> THEN <<0, 1>> ELSE <<100, 1>>

\* a non-empty inventory was compared with itself by both computations
C7_Witness ==
    /\ toc_file = spec_file
    /\ Len(toc_file) = 2
    /\ Analyzed
    /\ metrics.coverage_percentage = <<100, 1>>
    /\ coverage = <<100, 1>>

(***************************************************************************)
(* Gap filling: ContentEnhancer of pdf_parser/content_enhancer.py.         *)
(***************************************************************************)
MinContentLength == 50

\* _extract_text_from_page: the text of the page, '' when no backend gives any
_extract_text_from_page(page) ==
    IF page \in DOMAIN pdf_text THEN pdf_text[page] ELSE <<>>

\* set(s['page'] for s in sections)
PagesOf(secs) == {secs[i].page : i \in 1..Len(secs)}

MissingPagesAgainstToc(toc, spec) ==
    LET toc_pages  == PagesOf(toc)
        spec_pages == PagesOf(spec)
        max_page   == Max({0} \cup toc_pages \cup spec_pages)
    IN  (1..max_page) \ toc_pages

MissingPagesWithinCandidate(toc, spec) ==
    LET spec_pages == PagesOf(spec)
        max_page   == Max({0} \cup spec_pages)
    IN  (1..max_page) \ spec_pages

\* _get_missing_pages, as the set that the caller walks in ascending order
_get_missing_pages(toc, spec) ==
    LET toc_pages  == PagesOf(toc)
        spec_pages == PagesOf(spec)
        max_page   == Max({0} \cup toc_pages \cup spec_pages)
    IN  (1..max_page) \ spec_pages

\* _get_missing_section_ids: read for the log only
_get_missing_section_ids(toc, spec) ==
    _extract_section_ids(toc) \ _extract_section_ids(spec)

\* _get_toc_entry_for_page: <<>> for None, else <<entry>>, the first entry
\* of the page among those of the lowest level
_get_toc_entry_for_page(toc, page) ==
    LET on_page == {i \in 1..Len(toc) : Get(toc[i], "page", None) = page}
        lowest  == {i \in on_page :
                       \A j \in on_page :
                           Get(toc[i], "level", 999) <= Get(toc[j], "level", 999)}
    IN  IF on_page = {} THEN <<>> ELSE <<toc[Min(lowest)]>>

PageContentTitle(page) ==
    <<"P", "a", "g", "e", " ">> \o IntToStr(page)
        \o <<" ", "C", "o", "n", "t", "e", "n", "t">>

EnhancedId(page) ==
    <<"e", "n", "h", "a", "n", "c", "e", "d", "_">> \o IntToStr(page)

HasLongRawText(page_text) ==
    page_text # <<>> /\ Len(page_text) > MinContentLength

\* page_text and len(page_text.strip()) > 50
HasMeaningfulContent(page_text) ==
    page_text # <<>> /\ Len(Strip(page_text)) > MinContentLength

\* the section the loop builds for one missing page, <<>> when it builds none
SectionForPage(toc, page) ==
    LET page_text == _extract_text_from_page(page)
        toc_entry == _get_toc_entry_for_page(toc, page)
    IN  IF ~HasMeaningfulContent(page_text) THEN <<>>
        ELSE IF toc_entry # <<>>
        THEN << [section_id |-> Get(toc_entry[1], "section_id", None),
                 page       |-> page,
                 title      |-> Get(toc_entry[1], "title", PageContentTitle(page)),
                 level      |-> Get(toc_entry[1], "level", 1),
                 parent_id  |-> Get(toc_entry[1], "parent_id", None),
                 content    |-> page_text,
                 enhanced   |-> TRUE] >>
        ELSE << [section_id |-> EnhancedId(page),
                 page       |-> page,
                 title      |-> PageContentTitle(page),
                 level      |-> 1,
                 content    |-> page_text,
                 enhanced   |-> TRUE] >>

\* for page_num in sorted(missing_pages): the new sections of the pages
RECURSIVE NewSections(_, _)
NewSections(toc, pages) ==
    IF pages = {} THEN <<>>
    ELSE SectionForPage(toc, Min(pages))
         \o NewSections(toc, pages \ {Min(pages)})

\* new_sections of extract_missing_content
extract_missing_content(toc, spec) ==
    NewSections(toc, _get_missing_pages(toc, spec))

(***************************************************************************)
(* The gap-filling pass on persisted inventories.  The inventories are the *)
(* sub-sequences of two base inventories that extend those of the test     *)
(* suite: the ToC has two entries on page 3, the deeper one first, and the *)
(* candidate found "1.2" on another page than the ToC gives.  A page text  *)
(* is empty, the 27 characters of the test, 50 characters behind a blank,  *)
(* or 51 characters.                                                       *)
(***************************************************************************)
TocRec(section_id, page, level, parent_id) ==
    [section_id |-> section_id, title |-> <<"S">> \o section_id, page |-> page,
     level |-> level, parent_id |-> parent_id]

\* the ToC records of the test (no parent_id key)
TestTocRec(section_id, page, level) ==
    [section_id |-> section_id, title |-> <<"S">> \o section_id, page |-> page,
     level |-> level]

\* the candidate records of the test (no level, no parent_id key)
SpecRec(section_id, page) ==
    [section_id |-> section_id, title |-> <<"S">> \o section_id, page |-> page,
     content |-> <<"C">>]

TocBase ==
    <<TocRec(Id11, 2, 2, Id1),
      TocRec(Id12, 3, 2, Id1),
      TocRec(Id2, 3, 1, None),
      TocRec(Id2, 4, 1, None)>>

SpecBase ==
    <<SpecRec(Id1, 1), SpecRec(Id2, 4), SpecRec(Id12, 1)>>

\* toc_data of TestContentEnhancer.setUp
TestToc ==
    <<TestTocRec(Id1, 1, 1), TestTocRec(Id11, 2, 2), TestTocRec(Id12, 3, 2),
      TestTocRec(Id2, 4, 1)>>

\* spec_data of TestContentEnhancer.setUp
TestSpec ==
    <<SpecRec(Id1, 1), SpecRec(Id11, 2), SpecRec(Id2, 4)>>

\* the records of base at the indices of keep, in the order of base
RECURSIVE SubSequence(_, _)
SubSequence(base, keep) ==
    IF base = <<>> THEN <<>>
    ELSE SubSequence(SubSeq(base, 1, Len(base) - 1), keep)
         \o (IF Len(base) \in keep THEN <<base[Len(base)]>> ELSE <<>>)

SubSequences(base) == {SubSequence(base, keep) : keep \in SUBSET (1..Len(base))}

RECURSIVE Repeat(_, _)
Repeat(c, n) == IF n = 0 THEN <<>> ELSE <<c>> \o Repeat(c, n - 1)

\* "Enhanced content for page 3" of test_extract_missing_content
Text27 ==
    <<"E", "n", "h", "a", "n", "c", "e", "d", " ", "c", "o", "n", "t", "e",
      "n", "t", " ", "f", "o", "r", " ", "p", "a", "g", "e", " ", "3">>

TextPadded == <<" ">> \o Repeat("x", MinContentLength)

TextLong == Repeat("x", MinContentLength + 1)

PageTexts == {<<>>, Text27, TextPadded, TextLong}

InitGapFill ==
    /\ toc_file \in SubSequences(TocBase) \cup {TestToc}
    /\ spec_file \in SubSequences(SpecBase) \cup {TestSpec}
    /\ pdf_text \in [1..NumPages -> PageTexts]
    /\ written = <<>>
    /\ returned = 0
    /\ passes = 0
    /\ metrics = NoMetrics
    /\ coverage = NoCoverage
    /\ line = <<>>
    /\ spec_sections = <<>>
    /\ page_num = 0
    /\ recognizer = "none"
    /\ sections = <<>>
    /\ hierarchy_result = NoResult
    /\ PipelineIdle

\* ContentEnhancer.extract_missing_content(): the new sections are appended
\* to the spec file and their number is returned
ExtractMissingContent ==
    /\ passes < MaxPasses
    /\ LET new_sections == extract_missing_content(toc_file, spec_file)
       IN  /\ written' = new_sections
           /\ spec_file' = spec_file \o new_sections
           /\ returned' = Len(new_sections)
    /\ missing_pages' = _get_missing_pages(toc_file, spec_file)
    /\ passes' = passes + 1
    /\ UNCHANGED <<line, page_num, recognizer, sections, spec_sections,
                   toc_file, hierarchy_result, metrics, coverage, pdf_text>>
    /\ UNCHANGED <<pdf, toc_sections, readable, raised, exit_status, printed,
                   validation_result, response, runs, artifacts, log,
                   enhancements, jobs>>

NextGapFill == ExtractMissingContent

SpecGapFill == InitGapFill /\ [][NextGapFill]_vars

\* the candidate inventory as it was before the last pass
Before == SubSeq(spec_file, 1, Len(spec_file) - Len(written))

Covered(secs, p) == \E i \in 1..Len(secs) : secs[i].page = p

LastPage(secs) ==
    IF secs = <<>> THEN 0
    ELSE CHOOSE p \in PagesOf(secs) : \A q \in PagesOf(secs) : q <= p

\* the pages up to the largest page of either inventory that the candidate
\* did not cover before the last pass
MissingBefore ==
    {p \in 1..(IF LastPage(toc_file) > LastPage(Before)
               THEN LastPage(toc_file) ELSE LastPage(Before)) :
        ~Covered(Before, p)}

\* C8: a second pass over the same reference and the updated candidate, with
\* the same page texts, adds no section; no pass synthesizes a page the
\* candidate covered before it, nor a page twice.
C8_SecondPassAddsNothing ==
    /\ passes >= 2 => (returned = 0 /\ written = <<>>)
    /\ \A k \in 1..Len(written) : ~Covered(Before, written[k].page)
    /\ \A k, m \in 1..Len(written) : written[k].page = written[m].page => k = m

\* a first pass added sections and the second pass added none
C8_Witness ==
    /\ passes = 2
    /\ returned = 0
    /\ \E i \in 1..Len(spec_file) : "enhanced" \in DOMAIN spec_file[i]

TextOf(p) == IF p \in 1..NumPages THEN pdf_text[p] ELSE <<>>

Blank(c) == c \in {" ", "\t"}

\* the length of t without its leading and its trailing blanks
StrippedLength(t) ==
    IF \A i \in 1..Len(t) : Blank(t[i]) THEN 0
    ELSE Len(t)
         - Cardinality({i \in 1..Len(t) : \A j \in 1..i : Blank(t[j])})
         - Cardinality({i \in 1..Len(t) : \A j \in i..Len(t) : Blank(t[j])})

EntriesOn(p) == {i \in 1..Len(toc_file) : toc_file[i].page = p}

C10_NonEmptyTextIsSynthesized ==
    passes = 1 =>
        /\ returned = Len(written)
        /\ \A p \in MissingBefore :
              (TextOf(p) # <<>> /\ EntriesOn(p) # {}) =>
                  /\ Cardinality({k \in 1..Len(written) : written[k].page = p}) = 1
                  /\ \E k \in 1..Len(written) :
                        /\ written[k].page = p
                        /\ written[k].enhanced = TRUE
                        /\ \E i \in EntriesOn(p) :
                              written[k].section_id = toc_file[i].section_id

(***************************************************************************)
(* The document pass of usb_pd_parser.py: the title scan, the ToC pass,    *)
(* the full-body pass, save_jsonl, process_pdf and main.  The backing file *)
(* opens ("ok"), does not exist ("missing") or exists and cannot be opened *)
(* ("unreadable").  A page is the list of the lines of its text, has no    *)
(* text, or makes extract_text raise.                                      *)
(***************************************************************************)
MaxPdfPages == 3

TocLookahead == 20

TitleLookahead == 3

UpperSeq ==
    <<"A", "B", "C", "D", "E", "F", "G", "H", "I", "J", "K", "L", "M",
      "N", "O", "P", "Q", "R", "S", "T", "U", "V", "W", "X", "Y", "Z">>

LowerSeq ==
    <<"a", "b", "c", "d", "e", "f", "g", "h", "i", "j", "k", "l", "m",
      "n", "o", "p", "q", "r", "s", "t", "u", "v", "w", "x", "y", "z">>

LowerChar(c) ==
    IF c \in Uppers THEN LowerSeq[CHOOSE i \in 1..26 : UpperSeq[i] = c] ELSE c

\* str.lower()
Lower(s) == [i \in 1..Len(s) |-> LowerChar(s[i])]

\* sub in s
Contains(s, sub) ==
    \E i \in 1..(Len(s) - Len(sub) + 1) : SubSeq(s, i, i + Len(sub) - 1) = sub

TextPage(lines) == [kind |-> "text", lines |-> lines]
EmptyPage == [kind |-> "empty", lines |-> <<>>]
RaisingPage == [kind |-> "raises", lines |-> <<>>]

\* the test of extract_document_title on one stripped line
IsTitleLine(l) ==
    LET w == Lower(Strip(l))
    IN  /\ Contains(w, <<"u", "s", "b">>)
        /\ Contains(w, <<"p", "o", "w", "e", "r", " ", "d", "e", "l", "i", "v", "e", "r", "y">>) \/ Contains(w, <<"p", "d">>)
        /\ Contains(w, <<"s", "p", "e", "c", "i", "f", "i", "c", "a", "t", "i", "o", "n">>) \/ Contains(w, <<"s", "p", "e", "c">>)

\* the scan of the first three pages; an exception ends it with the default
RECURSIVE TitleFrom(_, _)
TitleFrom(pages, i) ==
    IF i > Min({TitleLookahead, Len(pages)}) THEN DocTitle
    ELSE IF pages[i].kind = "raises" THEN DocTitle
    ELSE LET hits == {j \in 1..Len(pages[i].lines) : IsTitleLine(pages[i].lines[j])}
         IN  IF hits # {} THEN Strip(pages[i].lines[Min(hits)])
             ELSE TitleFrom(pages, i + 1)

extract_document_title(f) ==
    IF f.state # "ok" THEN DocTitle ELSE TitleFrom(f.pages, 1)

\* Section(..., doc_title=self.doc_title, ...)
WithDocTitle(secs, title) ==
    [i \in 1..Len(secs) |-> [secs[i] EXCEPT !.doc_title = title]]

\* 'contents' in one of the first five lines, lower-cased
IsTocPageOnAnyLine(lines) ==
    \E i \in 1..Len(lines) : Contains(Lower(lines[i]), <<"c", "o", "n", "t", "e", "n", "t", "s">>)

IsTocPage(lines) ==
    \E i \in 1..Min({5, Len(lines)}) : Contains(Lower(lines[i]), <<"c", "o", "n", "t", "e", "n", "t", "s">>)

\* the lines that start with a numbered id and whitespace
NumberedLines(lines) ==
    {i \in 1..Len(lines) : IdGroupLen(Strip(lines[i])) > 0}

\* the body of the page loop of extract_toc_from_pdf for a page that gave
\* its text
TocPageSections(page, n, title) ==
    IF page.kind # "text" \/ page.lines = <<>> THEN <<>>
    ELSE IF ~IsTocPage(page.lines) /\ Cardinality(NumberedLines(page.lines)) < 3
    THEN <<>>
    ELSE WithDocTitle(_extract_sections_from_text(page.lines, n), title)

\* the page loop from page i on: the try encloses the loop, so a page that
\* raises ends it with what was collected
RECURSIVE TocPagesFrom(_, _, _)
TocPagesFrom(pages, i, title) ==
    IF i > Min({TocLookahead, Len(pages)})
    THEN [sections |-> <<>>, failed |-> FALSE]
    ELSE IF pages[i].kind = "raises"
    THEN [sections |-> <<>>, failed |-> TRUE]
    ELSE LET rest == TocPagesFrom(pages, i + 1, title)
         IN  [sections |-> TocPageSections(pages[i], i, title) \o rest.sections,
              failed   |-> rest.failed]

extract_toc_from_pdf(f, title) ==
    IF f.state # "ok" THEN [sections |-> <<>>, failed |-> TRUE]
    ELSE TocPagesFrom(f.pages, 1, title)

\* for line in lines: the header test and the parse
RECURSIVE BodyLines(_, _)
BodyLines(lines, n) ==
    IF lines = <<>> THEN <<>>
    ELSE SectionFromBodyLine(Head(lines), n) \o BodyLines(Tail(lines), n)

BodyPageSections(page, n, title) ==
    IF page.kind # "text" \/ page.lines = <<>> THEN <<>>
    ELSE WithDocTitle(BodyLines(page.lines, n), title)

RECURSIVE AllPagesFrom(_, _, _)
AllPagesFrom(pages, i, title) ==
    IF i > Len(pages)
    THEN [sections |-> <<>>, failed |-> FALSE]
    ELSE IF pages[i].kind = "raises"
    THEN [sections |-> <<>>, failed |-> TRUE]
    ELSE LET rest == AllPagesFrom(pages, i + 1, title)
         IN  [sections |-> BodyPageSections(pages[i], i, title) \o rest.sections,
              failed   |-> rest.failed]

extract_all_sections_from_pdf(f, title) ==
    IF f.state # "ok" THEN [sections |-> <<>>, failed |-> TRUE]
    ELSE AllPagesFrom(f.pages, 1, title)

\* save_jsonl: one record per section, in the order of the list
save_jsonl(secs) == secs

\* the summary counts of generate_validation_report
generate_validation_report(toc, all) ==
    [toc_total    |-> Len(toc),
     parsed_total |-> Len(all),
     both         |-> Cardinality(_extract_section_ids(toc)
                                      \cap _extract_section_ids(all)),
     toc_only     |-> Cardinality(_extract_section_ids(toc)
                                      \ _extract_section_ids(all)),
     parsed_only  |-> Cardinality(_extract_section_ids(all)
                                      \ _extract_section_ids(toc)),
     toc_level1   |-> Cardinality({i \in 1..Len(toc) : toc[i].level = 1}),
     toc_level2   |-> Cardinality({i \in 1..Len(toc) : toc[i].level = 2}),
     toc_level3   |-> Cardinality({i \in 1..Len(toc) : toc[i].level >= 3})]

LogTocStart == "Extracting Table of Contents..."
LogTocError == "Error extracting ToC"
LogAllStart == "Extracting all sections from PDF..."
LogAllError == "Error extracting all sections"
LogComplete == "Processing complete!"
LogMainError == "Error processing PDF"

\* what the two passes log
PassLog(toc, all) ==
    {LogTocStart, LogAllStart}
        \cup (IF toc.failed THEN {LogTocError} ELSE {})
        \cup (IF all.failed THEN {LogAllError} ELSE {})

\* a page with a title line and a 'Contents' heading
PToc ==
    TextPage(<< <<"U", "S", "B", " ", "P", "D", " ", "S", "p", "e", "c">>,
                <<"C", "o", "n", "t", "e", "n", "t", "s">>,
                <<"1", " ", "I", "n", "t", "r", "o", " ", "5">>,
                <<"1", ".", "1", " ", "O", "v", "e", "r", " ", "6">> >>)

\* a page of numbered entries without a heading
PNumbered ==
    TextPage(<< <<"2", " ", "P", "o", "w", "e", "r", " ", "9">>,
                <<"1", " ", "I", "n", "t", "r", "o", " ", "5">>,
                <<"1", ".", "1", " ", "O", "v", "e", "r", " ", "6">> >>)

\* body pages
PBody1 ==
    TextPage(<< <<"1", " ", "I", "n", "t", "r", "o">>,
                <<"s", "o", "m", "e", " ", "t", "e", "x", "t">>,
                <<"1", ".", "1", " ", "O", "v", "e", "r">> >>)

PBody2 ==
    TextPage(<< <<"2", " ", "P", "o", "w", "e", "r">>,
                <<"1", " ", "I", "n", "t", "r", "o">> >>)

\* two ToC entries and no heading
PTwoEntries ==
    TextPage(<< <<"3", " ", "D", "a", "t", "a", " ", "7">>,
                <<"3", ".", "1", " ", "B", "i", "t", "s", " ", "8">> >>)

\* a 'CONTENTS' heading on the sixth line, then one ToC entry
PLateHeading ==
    TextPage(<< <<"a">>, <<"b">>, <<"c">>, <<"d">>, <<"e">>,
                <<"C", "O", "N", "T", "E", "N", "T", "S">>,
                <<"4", " ", "P", "l", "u", "g", " ", "9">> >>)

PdfPages == {PToc, PNumbered, PBody1, PBody2, EmptyPage, RaisingPage}

\* documents with pages that miss the ToC page test by one line
NearTocPdfPages ==
    {<<PTwoEntries>>,
     <<PLateHeading>>,
     <<PTwoEntries, PToc, PLateHeading>>,
     <<PLateHeading, PNumbered, PTwoEntries>>}

\* documents longer than the ToC lookahead: the ToC page is the last page
\* inside the lookahead, or the first page beyond it
LongPdfPages ==
    {Repeat(EmptyPage, TocLookahead - 1) \o <<PToc>>,
     Repeat(EmptyPage, TocLookahead) \o <<PToc>>,
     Repeat(EmptyPage, TocLookahead) \o <<RaisingPage>>}

PdfFiles ==
    {[state |-> "ok", pages |-> ps] :
        ps \in SeqsUpTo(PdfPages, MaxPdfPages) \cup NearTocPdfPages
                  \cup LongPdfPages}
        \cup {[state |-> "missing", pages |-> <<>>],
              [state |-> "unreadable", pages |-> <<>>]}

InitPipeline ==
    /\ pdf \in PdfFiles
    /\ line = <<>>
    /\ spec_sections = <<>>
    /\ page_num = 0
    /\ recognizer = "none"
    /\ sections = <<>>
    /\ toc_file = <<>>
    /\ spec_file = <<>>
    /\ hierarchy_result = NoResult
    /\ metrics = NoMetrics
    /\ coverage = NoCoverage
    /\ pdf_text = NoText
    /\ written = <<>>
    /\ returned = 0
    /\ passes = 0
    /\ toc_sections = <<>>
    /\ missing_pages = {}
    /\ readable = TRUE
    /\ raised = NoException
    /\ exit_status = -1
    /\ printed = "none"
    /\ validation_result = NoValidation
    /\ response = NoResponse
    /\ runs = 0
    /\ artifacts = NoArtifacts
    /\ log = {}
    /\ enhancements = 0
    /\ jobs = NoJobs

PipelineFrame ==
    UNCHANGED <<line, page_num, recognizer, spec_sections, hierarchy_result,
                metrics, coverage, pdf_text, written, returned, passes, pdf,
                missing_pages, readable, validation_result, response, runs,
                enhancements, jobs>>

\* USBPDParser(pdf).extract_toc_from_pdf()
ExtractTocFromPdf ==
    /\ \E toc \in {extract_toc_from_pdf(pdf, DocTitle)} :
           /\ toc_sections' = toc.sections
           /\ log' = log \cup {LogTocStart}
                         \cup (IF toc.failed THEN {LogTocError} ELSE {})
    /\ raised' = NoException
    /\ UNCHANGED <<sections, toc_file, spec_file, artifacts, exit_status,
                   printed>>
    /\ PipelineFrame

\* USBPDParser(pdf).extract_all_sections_from_pdf()
ExtractAllSectionsFromPdf ==
    /\ \E all \in {extract_all_sections_from_pdf(pdf, DocTitle)} :
           /\ sections' = all.sections
           /\ log' = log \cup {LogAllStart}
                         \cup (IF all.failed THEN {LogAllError} ELSE {})
    /\ raised' = NoException
    /\ UNCHANGED <<toc_sections, toc_file, spec_file, artifacts, exit_status,
                   printed>>
    /\ PipelineFrame

\* process_pdf once the file exists: title, both passes, both files, the
\* metadata file and the report
ProcessExisting ==
    \E title \in {extract_document_title(pdf)} :
    \E toc \in {extract_toc_from_pdf(pdf, title)} :
    \E all \in {extract_all_sections_from_pdf(pdf, title)} :
        /\ toc_sections' = toc.sections
        /\ sections' = all.sections
        /\ toc_file' = save_jsonl(toc.sections)
        /\ spec_file' = save_jsonl(all.sections)
        /\ artifacts' =
             [written            |-> TRUE,
              doc_title          |-> title,
              total_toc_sections |-> Len(toc.sections),
              total_sections     |-> Len(all.sections),
              report             |->
                  generate_validation_report(toc.sections, all.sections)]
        /\ log' = log \cup PassLog(toc, all) \cup {LogComplete}

\* USBPDParser(pdf).process_pdf(pdf)
ProcessPdf ==
    /\ IF pdf.state = "missing"
       THEN /\ raised' = "FileNotFoundError"
            /\ UNCHANGED <<toc_sections, sections, toc_file, spec_file,
                           artifacts, log>>
       ELSE /\ raised' = NoException
            /\ ProcessExisting
    /\ UNCHANGED <<exit_status, printed>>
    /\ PipelineFrame

\* main() run as a script: the except clause logs and prints the error and
\* the script ends without sys.exit
Main ==
    /\ IF pdf.state = "missing"
       THEN /\ printed' = "error"
            /\ log' = log \cup {LogMainError}
            /\ UNCHANGED <<toc_sections, sections, toc_file, spec_file,
                           artifacts>>
       ELSE /\ printed' = "success"
            /\ ProcessExisting
    /\ raised' = NoException
    /\ exit_status' = 0
    /\ PipelineFrame

NextPipeline ==
    \/ ExtractTocFromPdf
    \/ ExtractAllSectionsFromPdf
    \/ ProcessPdf
    \/ Main

SpecPipeline == InitPipeline /\ [][NextPipeline]_vars

\* only the passes called on their own have run, with the default title
OnlyPasses == pdf.state = "ok" /\ ~artifacts.written

\* every section of inner occurs in outer
Included(inner, outer) ==
    \A k \in 1..Len(inner) : \E j \in 1..Len(outer) : outer[j] = inner[k]

\* C12: a page whose text extraction raises does not abort the ToC pass or
\* the full-body pass: the sections of every other page the pass covers,
\* later pages included, are in the resulting inventory.
C12_FailingPageDoesNotAbort ==
    OnlyPasses =>
        /\ LogTocStart \in log =>
              \A i \in 1..Min({TocLookahead, Len(pdf.pages)}) :
                  Included(TocPageSections(pdf.pages[i], i, DocTitle),
                         toc_sections)
        /\ LogAllStart \in log =>
              \A i \in 1..Len(pdf.pages) :
                  Included(BodyPageSections(pdf.pages[i], i, DocTitle),
                         sections)

UniqueIds(secs) ==
    \A i, j \in 1..Len(secs) :
        i # j => secs[i].section_id # secs[j].section_id

\* C13: no two sections of the ToC inventory, and no two sections of the
\* full-body inventory, of one extraction run share a section_id.
C13_SectionIdUniqueInInventory ==
    /\ UniqueIds(toc_sections)
    /\ UniqueIds(sections)

\* C15: when the backing file does not exist or cannot be opened, the
\* document pass does not complete, main does not report success and the
\* process does not end with exit status 0.
C15_UnopenableFileIsHardFailure ==
    pdf.state # "ok" =>
        /\ LogComplete \notin log
        /\ printed # "success"
        /\ exit_status # 0

\* the components of a dotted id as integers
IdKey(id) ==
    LET parts == SplitDots(id) IN [i \in 1..Len(parts) |-> ParseInt(parts[i])]

RECURSIVE IntsLess(_, _)
IntsLess(a, b) ==
    IF a = <<>> THEN b # <<>>
    ELSE IF b = <<>> THEN FALSE
    ELSE IF a[1] # b[1] THEN a[1] < b[1]
    ELSE IntsLess(Tail(a), Tail(b))

InNaturalOrder(secs) ==
    \A i \in 1..(Len(secs) - 1) :
        ~IntsLess(IdKey(secs[i + 1].section_id), IdKey(secs[i].section_id))

\* C16: the two inventory files process_pdf saves have their records in
\* natural dotted-id order, ids compared component by component as integers.
C16_SavedInNaturalOrder ==
    artifacts.written =>
        /\ InNaturalOrder(toc_file)
        /\ InNaturalOrder(spec_file)

(***************************************************************************)
(* The enhancement flow of the root content_enhancer.py: main builds a     *)
(* ContentEnhancer, which loads both inventories, analyses the coverage,   *)
(* scans the missing pages, merges, sorts and saves, and analyses again.   *)
(***************************************************************************)
\* the characters of section ids, in the order of their code points
AsciiSeq ==
    <<" ", "-", ".", "0", "1", "2", "3", "4", "5", "6", "7", "8", "9",
      "A", "B", "C", "D", "E", "F", "G", "H", "I", "J", "K", "L", "M",
      "N", "O", "P", "Q", "R", "S", "T", "U", "V", "W", "X", "Y", "Z", "_",
      "a", "b", "c", "d", "e", "f", "g", "h", "i", "j", "k", "l", "m",
      "n", "o", "p", "q", "r", "s", "t", "u", "v", "w", "x", "y", "z">>

Ord(c) == CHOOSE i \in 1..Len(AsciiSeq) : AsciiSeq[i] = c

\* str < str
RECURSIVE StrLess(_, _)
StrLess(a, b) ==
    IF a = <<>> THEN b # <<>>
    ELSE IF b = <<>> THEN FALSE
    ELSE IF a[1] # b[1] THEN Ord(a[1]) < Ord(b[1])
    ELSE StrLess(Tail(a), Tail(b))

\* [int(p) if p.isdigit() else p for p in section_id.split('.')]
_section_sort_key(section_id) ==
    LET parts == SplitDots(section_id)
    IN  [i \in 1..Len(parts) |->
            IF IsDigitStr(parts[i]) THEN [int |-> ParseInt(parts[i])]
            ELSE [str |-> parts[i]]]

IsInt(part) == "int" \in DOMAIN part

\* the comparison of two keys as lists: the first differing pair decides,
\* and an int against a str raises TypeError
RECURSIVE KeyCompare(_, _)
KeyCompare(a, b) ==
    IF a = <<>> THEN (IF b = <<>> THEN "eq" ELSE "lt")
    ELSE IF b = <<>> THEN "gt"
    ELSE IF IsInt(a[1]) # IsInt(b[1]) THEN "TypeError"
    ELSE IF a[1] = b[1] THEN KeyCompare(Tail(a), Tail(b))
    ELSE IF IsInt(a[1])
    THEN (IF a[1].int < b[1].int THEN "lt" ELSE "gt")
    ELSE (IF StrLess(a[1].str, b[1].str) THEN "lt" ELSE "gt")

\* the sort raises when it compares an int part with a str part; the ids of
\* the inventories differ in kind in their first part only, so that every
\* sort of a list with both kinds compares such a pair
SortRaises(secs) ==
    \E i, j \in 1..Len(secs) :
        KeyCompare(_section_sort_key(secs[i].section_id),
                   _section_sort_key(secs[j].section_id)) = "TypeError"

InsertAtEnd(sorted, x) == Append(sorted, x)

\* x behind the last element that is not greater
InsertByKey(sorted, x) ==
    LET above == {i \in 1..Len(sorted) :
                     KeyCompare(_section_sort_key(x.section_id),
                                _section_sort_key(sorted[i].section_id)) = "lt"}
        pos   == IF above = {} THEN Len(sorted) + 1 ELSE Min(above)
    IN  SubSeq(sorted, 1, pos - 1) \o <<x>> \o SubSeq(sorted, pos, Len(sorted))

\* list.sort(key=...): stable
RECURSIVE SortSections(_)
SortSections(secs) ==
    IF secs = <<>> THEN <<>>
    ELSE InsertByKey(SortSections(SubSeq(secs, 1, Len(secs) - 1)),
                     secs[Len(secs)])

\* for line in lines: the sections whose id is not in existing_ids
RECURSIVE ScanLines(_, _, _, _)
ScanLines(lines, n, existing, seen) ==
    IF lines = <<>> THEN <<>>
    ELSE LET sec  == _parse_section_from_line(Head(lines), n, existing)
             take == sec # <<>> /\ sec[1].section_id \notin seen
         IN  (IF take THEN sec ELSE <<>>)
             \o ScanLines(Tail(lines), n, existing,
                          IF take THEN seen \cup {sec[1].section_id} ELSE seen)

\* for page_num in sorted(self.missing_pages); a page that raises ends the
\* scan with the exception
RECURSIVE ScanPages(_, _, _, _)
ScanPages(pages, todo, existing, seen) ==
    IF todo = {} THEN [sections |-> <<>>, failed |-> FALSE]
    ELSE LET n == Min(todo)
         IN  IF n < 1 \/ n > Len(pages)
             THEN ScanPages(pages, todo \ {n}, existing, seen)
             ELSE IF pages[n].kind = "raises"
             THEN [sections |-> <<>>, failed |-> TRUE]
             ELSE LET here == IF pages[n].kind = "text" /\ pages[n].lines # <<>>
                              THEN ScanLines(pages[n].lines, n, existing, seen)
                              ELSE <<>>
                      rest == ScanPages(pages, todo \ {n}, existing,
                                        seen \cup _extract_section_ids(here))
                  IN  [sections |-> here \o rest.sections,
                       failed   |-> rest.failed]

LogEnhanceError == "Error enhancing content"
LogNoNewSections == "No new sections added"
LogAddedSections == "Added new sections"

\* main of content_enhancer.py when an exception reaches it: the file is as
\* it was and the status is 1
EnhanceFailed(spec) ==
    [status |-> 1, spec_file |-> spec, message |-> LogEnhanceError]

\* main of content_enhancer.py on the PDF f and the candidate file spec
EnhanceRun(f, spec) ==
    IF f.state # "ok" THEN EnhanceFailed(spec)
    ELSE IF Len(f.pages) = 0 THEN EnhanceFailed(spec)
    ELSE
      LET missing == (1..Len(f.pages)) \ PagesOf(spec)
          scan    == ScanPages(f.pages, missing, spec, _extract_section_ids(spec))
          merged  == spec \o scan.sections
      IN  IF missing = {}
          THEN [status |-> 0, spec_file |-> spec, message |-> LogNoNewSections]
          ELSE IF scan.failed \/ SortRaises(merged) THEN EnhanceFailed(spec)
          ELSE IF scan.sections = <<>>
          THEN [status |-> 0, spec_file |-> spec, message |-> LogNoNewSections]
          ELSE [status |-> 0, spec_file |-> SortSections(merged),
                message |-> LogAddedSections]

\* page texts of the enhancement runs
PBeta == TextPage(<< <<"2", " ", "B", "e", "t", "a">> >>)
PGamma == TextPage(<< <<"3", " ", "G", "a", "m", "m", "a">> >>)
PCaps == TextPage(<< <<"O", "V", "E", "R", "V", "I", "E", "W">> >>)
PLong == TextPage(<< TextLong >>)

EnhancePages == {PBeta, PGamma, PCaps, PLong, RaisingPage}

EnhanceFiles ==
    {[state |-> "ok", pages |-> ps] : ps \in SeqsUpTo(EnhancePages, MaxPdfPages)}
        \cup {[state |-> "missing", pages |-> <<>>],
              [state |-> "unreadable", pages |-> <<>>]}

S1 == Section(Id1, <<"A", "l", "p", "h", "a">>, 1, 1, None)
S4 == Section(<<"4">>, <<"D", "e", "l", "t", "a">>, 1, 1, None)
S4b == Section(<<"4">>, <<"A", "g", "a", "i", "n">>, 1, 1, None)

EnhanceSpecs == {<<>>, <<S1>>, <<S1, S4>>, <<S4, S1, S4b>>}

EnhanceTocs == {<<>>, <<TocRec(Id2, 2, 1, None)>>}

\* '\n'.join(lines), '' for a page without text
RECURSIVE JoinLines(_)
JoinLines(lines) ==
    IF lines = <<>> THEN <<>>
    ELSE IF Len(lines) = 1 THEN lines[1]
    ELSE lines[1] \o <<"\n">> \o JoinLines(Tail(lines))

InitEnhance ==
    /\ pdf \in EnhanceFiles
    /\ pdf_text = [p \in 1..Len(pdf.pages) |-> JoinLines(pdf.pages[p].lines)]
    /\ toc_file \in EnhanceTocs
    /\ spec_file \in EnhanceSpecs
    /\ line = <<>>
    /\ spec_sections = <<>>
    /\ page_num = 0
    /\ recognizer = "none"
    /\ sections = <<>>
    /\ hierarchy_result = NoResult
    /\ metrics = NoMetrics
    /\ coverage = NoCoverage
    /\ written = <<>>
    /\ returned = 0
    /\ passes = 0
    /\ toc_sections = <<>>
    /\ missing_pages = {}
    /\ readable = TRUE
    /\ raised = NoException
    /\ exit_status = -1
    /\ printed = "none"
    /\ validation_result = NoValidation
    /\ response = NoResponse
    /\ runs = 0
    /\ artifacts = NoArtifacts
    /\ log = {}
    /\ enhancements = 0
    /\ jobs = NoJobs

\* python content_enhancer.py pdf_file: sys.exit(main())
EnhanceMain ==
    /\ enhancements < MaxPasses
    /\ \E run \in {EnhanceRun(pdf, spec_file)} :
          /\ spec_file' = run.spec_file
          /\ exit_status' = run.status
          /\ log' = log \cup {run.message}
    /\ enhancements' = enhancements + 1
    /\ UNCHANGED <<line, page_num, recognizer, sections, spec_sections,
                   toc_file, hierarchy_result, metrics, coverage, pdf_text,
                   written, returned, passes, pdf, toc_sections,
                   missing_pages, readable, raised, printed,
                   validation_result, response, runs, artifacts, jobs>>

NextEnhance ==
    \/ ExtractMissingContent
    \/ EnhanceMain

SpecEnhance == InitEnhance /\ [][NextEnhance]_vars

Count(secs, r) == Cardinality({i \in 1..Len(secs) : secs[i] = r})

AscendingPages(secs) ==
    \A i, j \in 1..Len(secs) : i < j => secs[i].page <= secs[j].page

\* after is before followed by records in ascending page order
AppendedTo(before, after) ==
    /\ Len(after) >= Len(before)
    /\ SubSeq(after, 1, Len(before)) = before
    /\ AscendingPages(SubSeq(after, Len(before) + 1, Len(after)))

\* after holds every record of before and records with other ids, all in
\* natural dotted-id order, records of before with one id in their order
MergedSorted(before, after) ==
    /\ Len(after) > Len(before)
    /\ \A i \in 1..Len(before) : Count(after, before[i]) = Count(before, before[i])
    /\ \A k \in 1..Len(after) :
          Count(before, after[k]) = 0 =>
              after[k].section_id \notin _extract_section_ids(before)
    /\ InNaturalOrder(after)
    /\ \A i, j \in 1..Len(before) :
          (i < j /\ before[i].section_id = before[j].section_id) =>
              \E k, l \in 1..Len(after) :
                  k < l /\ after[k] = before[i] /\ after[l] = before[j]

\* C11 as stated: a gap-filling pass and an enhancement run leave the ToC
\* file as it is and only append to the candidate file: the records it held
\* come first, unchanged and in their order, followed by the new records
\* in ascending page order.
C11_PassOnlyAppends ==
    [][(passes' # passes \/ enhancements' # enhancements) =>
           /\ toc_file' = toc_file
           /\ AppendedTo(spec_file, spec_file')]_vars

\* C11, amended: both leave the ToC file as it is.  A gap-filling pass only
\* appends, the new records in ascending page order.  An enhancement run
\* leaves the candidate file as it is, or rewrites it with every record it
\* held, unchanged, and the new records, whose ids are new, the whole in
\* natural dotted-id order with records of equal id in their prior order.
C11_AppendsOrMergesSorted ==
    [][/\ passes' # passes =>
              /\ toc_file' = toc_file
              /\ AppendedTo(spec_file, spec_file')
       /\ enhancements' # enhancements =>
              /\ toc_file' = toc_file
              /\ \/ spec_file' = spec_file
                 \/ MergedSorted(spec_file, spec_file')]_vars

\* an enhancement run put a new section between two old ones, and a
\* gap-filling pass then appended a synthesized section
C11_Witness ==
    /\ enhancements = 1
    /\ passes = 1
    /\ LogAddedSections \in log
    /\ written # <<>>
    /\ Len(spec_file) = 4
    /\ spec_file[1] = S1
    /\ spec_file[2].section_id = Id2
    /\ spec_file[3] = S4
    /\ spec_file[4] = written[1]

(***************************************************************************)
(* SchemaValidator of pdf_parser/schema_validator.py.  A line of the file  *)
(* is a JSON value: an object, given by the Python type of the value of    *)
(* each of its keys, or a list or a number.                                *)
(***************************************************************************)
required_fields ==
    <<"section_id", "title", "page", "level", "parent_id", "full_path",
      "doc_title", "tags">>

\* type_checks, in the order of the dict
type_checks ==
    << <<"section_id", "str">>, <<"title", "str">>, <<"page", "int">>,
       <<"level", "int">>, <<"full_path", "str">>, <<"doc_title", "str">>,
       <<"tags", "list">> >>

\* isinstance(value, expected) by the type of value; bool is a subclass of int
IsInstance(type, expected) ==
    type = expected \/ (expected = "int" /\ type = "bool")

_create_validation_result ==
    [total_records     |-> 0,
     valid_records     |-> 0,
     invalid_records   |-> 0,
     missing_fields    |-> <<>>,
     field_types_valid |-> TRUE,
     errors            |-> <<>>]

\* field not in record: a key test on an object, an element test on a list
_check_required_fields(record) ==
    LET absent(field) ==
            IF record.json = "object" THEN field \notin DOMAIN record.fields
            ELSE TRUE
    IN  SelectSeq(required_fields, absent)

_check_field_types(record) ==
    LET wrong(check) == ~IsInstance(record.fields[check[1]], check[2])
        bad == SelectSeq(type_checks, wrong)
    IN  [i \in 1..Len(bad) |->
            [field    |-> bad[i][1],
             expected |-> bad[i][2],
             got      |-> record.fields[bad[i][1]]]]

\* record_number is record_index + 1, the number the message carries
_update_validation_result(result, record_number, missing_fields, type_errors) ==
    IF missing_fields # <<>>
    THEN [result EXCEPT
             !.missing_fields = @ \o missing_fields,
             !.invalid_records = @ + 1,
             !.errors = Append(@, [record |-> record_number,
                                   missing |-> missing_fields])]
    ELSE IF type_errors # <<>>
    THEN [result EXCEPT
             !.field_types_valid = FALSE,
             !.invalid_records = @ + 1,
             !.errors = Append(@, [record |-> record_number,
                                   types  |-> type_errors])]
    ELSE [result EXCEPT !.valid_records = @ + 1]

\* except Exception as e: errors.append("File reading error: ...")
WithReadError(result, e) ==
    [result EXCEPT !.errors = Append(@, [file_reading_error |-> e])]

\* the loop over the records from record i on; a number is not iterable, so
\* the membership test raises TypeError and the loop ends
RECURSIVE SchemaValidateFrom(_, _, _)
SchemaValidateFrom(records, i, result) ==
    IF i > Len(records) THEN result
    ELSE
      LET counted == [result EXCEPT !.total_records = @ + 1]
      IN  IF records[i].json = "number"
          THEN WithReadError(counted, "TypeError")
          ELSE
            LET missing_fields == _check_required_fields(records[i])
            IN  IF missing_fields # <<>>
                THEN SchemaValidateFrom(records, i + 1,
                         _update_validation_result(counted, i, missing_fields, <<>>))
                ELSE
                  LET type_errors == _check_field_types(records[i])
                  IN  IF type_errors # <<>>
                      THEN SchemaValidateFrom(records, i + 1,
                               _update_validation_result(counted, i, <<>>, type_errors))
                      ELSE SchemaValidateFrom(records, i + 1,
                               [counted EXCEPT !.valid_records = @ + 1])

\* SchemaValidator.validate on a file that opens
SchemaValidate(records) ==
    SchemaValidateFrom(records, 1, _create_validation_result)

Object(fields) == [json |-> "object", fields |-> fields]

\* valid_section of the tests
ValidSection ==
    Object([section_id |-> "str", title |-> "str", page |-> "int",
            level |-> "int", parent_id |-> "str", full_path |-> "str",
            doc_title |-> "str", tags |-> "list"])

\* a top-level section: parent_id is null
TopSection ==
    Object([section_id |-> "str", title |-> "str", page |-> "int",
            level |-> "int", parent_id |-> "NoneType", full_path |-> "str",
            doc_title |-> "str", tags |-> "list"])

\* invalid_section of the tests: no page, no parent_id, no tags
InvalidSection ==
    Object([section_id |-> "str", title |-> "str", level |-> "int",
            full_path |-> "str", doc_title |-> "str"])

\* page is a string and tags is null
MistypedSection ==
    Object([section_id |-> "str", title |-> "str", page |-> "str",
            level |-> "int", parent_id |-> "str", full_path |-> "str",
            doc_title |-> "str", tags |-> "NoneType"])

\* level is a bool
BoolLevelSection ==
    Object([section_id |-> "str", title |-> "str", page |-> "int",
            level |-> "bool", parent_id |-> "str", full_path |-> "str",
            doc_title |-> "str", tags |-> "list"])

SchemaRecords ==
    {ValidSection, TopSection, InvalidSection, MistypedSection,
     BoolLevelSection, [json |-> "list"], [json |-> "number"]}

InitSchema ==
    /\ \/ readable = TRUE /\ spec_file \in SeqsUpTo(SchemaRecords, MaxSections)
       \/ readable = FALSE /\ spec_file = <<>>
    /\ validation_result = NoValidation
    /\ line = <<>>
    /\ spec_sections = <<>>
    /\ page_num = 0
    /\ recognizer = "none"
    /\ sections = <<>>
    /\ toc_file = <<>>
    /\ hierarchy_result = NoResult
    /\ metrics = NoMetrics
    /\ coverage = NoCoverage
    /\ pdf_text = NoText
    /\ written = <<>>
    /\ returned = 0
    /\ passes = 0
    /\ pdf = NoPdf
    /\ toc_sections = <<>>
    /\ missing_pages = {}
    /\ raised = NoException
    /\ exit_status = -1
    /\ printed = "none"
    /\ response = NoResponse
    /\ runs = 0
    /\ artifacts = NoArtifacts
    /\ log = {}
    /\ enhancements = 0
    /\ jobs = NoJobs

\* SchemaValidator().validate(spec_file)
ValidateSchema ==
    /\ validation_result' =
          IF readable THEN SchemaValidate(spec_file)
          ELSE WithReadError(_create_validation_result, "FileNotFoundError")
    /\ raised' = NoException
    /\ UNCHANGED <<line, page_num, recognizer, sections, spec_sections,
                   toc_file, spec_file, hierarchy_result, metrics, coverage,
                   pdf_text, written, returned, passes, pdf, toc_sections,
                   missing_pages, readable, exit_status, printed, response,
                   runs, artifacts, log, enhancements, jobs>>

NextSchema == ValidateSchema

SpecSchema == InitSchema /\ [][NextSchema]_vars

SchemaValidated == validation_result # NoValidation /\ readable

IsObject(i) == spec_file[i].json = "object"

LacksField(i) ==
    IsObject(i) /\ \E k \in 1..Len(required_fields) :
                       required_fields[k] \notin DOMAIN spec_file[i].fields

\* C17: validate on a file of records of which some lack required fields
\* counts each of those as invalid and not as valid, holds at least one
\* error message and has field_types_valid false.
C17_MissingFieldsClearTypesValid ==
    (/\ SchemaValidated
     /\ \A i \in 1..Len(spec_file) : IsObject(i)
     /\ \E i \in 1..Len(spec_file) : LacksField(i)) =>
        /\ validation_result.invalid_records
              >= Cardinality({i \in 1..Len(spec_file) : LacksField(i)})
        /\ validation_result.valid_records
              <= Cardinality({i \in 1..Len(spec_file) : ~LacksField(i)})
        /\ validation_result.errors # <<>>
        /\ validation_result.field_types_valid = FALSE

\* C18: after validate on a file that opens, every record has been counted
\* once, as valid or as invalid, and there is one error message per invalid
\* record.
C18_EveryRecordCountedOnce ==
    SchemaValidated =>
        /\ validation_result.total_records = Len(spec_file)
        /\ validation_result.total_records
              = validation_result.valid_records
                  + validation_result.invalid_records
        /\ Len(validation_result.errors) = validation_result.invalid_records

(***************************************************************************)
(* The upload endpoint parse_pdf of server.py.  It checks the upload, runs *)
(* the parser, reads the two inventories the parser left and computes the  *)
(* coverage metrics itself.  The call parser.process_pdf() has no argument *)
(* and unpacks two lists: the process_pdf of usb_pd_parser.py does not     *)
(* accept it and the TypeError becomes a response with status 500; with a  *)
(* parser that accepts the call the endpoint goes on to read the files.    *)
(***************************************************************************)
\* the block "Calculate coverage metrics"
ServerMetrics(toc_data, sections_data) ==
    LET total_toc == Len(toc_data)
        toc_ids   == {Get(toc_data[i], "section_id", <<>>) :
                         i \in 1..Len(toc_data)}
        spec_ids  == {Get(sections_data[i], "section_id", <<>>) :
                         i \in 1..Len(sections_data)}
        common    == Cardinality(toc_ids \cap spec_ids)
    IN  [total_toc  |-> total_toc,
         total_spec |-> Len(sections_data),
         common     |-> common,
         toc_only   |-> Cardinality(toc_ids \ spec_ids),
         spec_only  |-> Cardinality(spec_ids \ toc_ids),
         coverage_percentage |->
             IF total_toc > 0 THEN Fraction(common * 100, total_toc)
             ELSE <<0, 1>>]

\* the request: no file part, an empty file name, a name that does not end
\* in .pdf, or a PDF
Uploads == {"none", "unnamed", "text", "pdf"}

parse_pdf(upload, parser_accepts, toc, spec) ==
    IF upload = "none"
    THEN [status |-> 400, error |-> "No file provided"]
    ELSE IF upload = "unnamed"
    THEN [status |-> 400, error |-> "No file selected"]
    ELSE IF upload = "text"
    THEN [status |-> 400, error |-> "Uploaded file must be a PDF"]
    ELSE IF ~parser_accepts
    THEN [status |-> 500, error |-> "TypeError"]
    ELSE [status         |-> 200,
          toc_count      |-> Len(toc),
          sections_count |-> Len(spec),
          coverage       |-> ServerMetrics(toc, spec)]

\* POST /api/parse with the two inventories in place
ParsePdf ==
    /\ \E upload \in Uploads : \E parser_accepts \in BOOLEAN :
          response' = parse_pdf(upload, parser_accepts, toc_file, spec_file)
    /\ UNCHANGED <<line, page_num, recognizer, sections, spec_sections,
                   toc_file, spec_file, hierarchy_result, metrics, coverage,
                   pdf_text, written, returned, passes, pdf, toc_sections,
                   missing_pages, readable, raised, exit_status, printed,
                   validation_result, runs, artifacts, log, enhancements, jobs>>

NextServer == Analyze \/ ParsePdf

SpecServer == InitCoverage /\ [][NextServer]_vars

\* C19: the coverage metrics of a successful response of the endpoint equal
\* the metrics CoverageAnalyzer.analyze computes for the same two
\* inventories, also when an inventory holds records with one section_id.
C19_EndpointMetricsEqualAnalyze ==
    (Analyzed /\ response.status = 200) => response.coverage = metrics

(***************************************************************************)
(* The enhancement recognizer on the Appendix shape                        *)
(* (content_enhancer.py, _parse_section_from_line, third pattern).         *)
(***************************************************************************)
\* the line reads "Appendix X: Title": the word, one blank, a capital, a
\* colon and a non-empty title
AppendixShape(s) ==
    LET n == Len(AppendixWord)
    IN  /\ Len(s) >= n + 5
        /\ SubSeq(s, 1, n) = AppendixWord
        /\ s[n + 1] = " "
        /\ IsUpper(s[n + 2])
        /\ s[n + 3] = ":"
        /\ s[n + 4] = " "
        /\ ~IsSpace(s[n + 5])
        /\ ~IsSpace(s[Len(s)])

\* C21: the enhancement recognizer returns a Section for a line of the shape
\* "Appendix X: Title", as it does for a numbered line and an ALL-CAPS line.
C21_AppendixShapeRecognized ==
    (recognizer = "enhance" /\ AppendixShape(line)) => sections # <<>>

(***************************************************************************)
(* Minted ids of an enhancement run (content_enhancer.py, lines 95-124 and *)
(* 182-203).                                                               *)
(***************************************************************************)
\* the ALL-CAPS headers without numeric id on the pages of f that no record
\* of spec covers: pairs <<page, title>>
CapsHeaders(f, spec) ==
    UNION {{<<p, Strip(f.pages[p].lines[i])>> :
               i \in {j \in 1..Len(f.pages[p].lines) :
                         /\ MatchNumbered(Strip(f.pages[p].lines[j])) = <<>>
                         /\ MatchAllCaps(Strip(f.pages[p].lines[j])) # <<>>}} :
           p \in {q \in (1..Len(f.pages)) \ PagesOf(spec) :
                     f.pages[q].kind = "text"}}

\* the records of secs that stand for the header h
SectionsFor(h, secs) ==
    {k \in 1..Len(secs) : secs[k].page = h[1] /\ secs[k].title = h[2]}

\* C22: an enhancement run that succeeds gives every ALL-CAPS header
\* without numeric id on a missing page a section of its own, with an id of
\* its own: headers of different pages get sections of different ids.
C22_EachCapsHeaderGetsOwnSection ==
    [][(enhancements' # enhancements /\ exit_status' = 0) =>
           /\ \A h \in CapsHeaders(pdf, spec_file) :
                  SectionsFor(h, spec_file') # {}
           /\ \A h, g \in CapsHeaders(pdf, spec_file) :
                  h[1] # g[1] =>
                      \E k \in SectionsFor(h, spec_file') :
                          \E l \in SectionsFor(g, spec_file') :
                              spec_file'[k].section_id # spec_file'[l].section_id]_vars

DottedNumeric(s) ==
    /\ s # <<>>
    /\ \A i \in 1..Len(s) : IsDigit(s[i]) \/ s[i] = "."
    /\ IsDigit(s[1]) /\ IsDigit(s[Len(s)])
    /\ \A i \in 1..(Len(s) - 1) : ~(s[i] = "." /\ s[i + 1] = ".")

\* the line, stripped, starts with a dotted-numeric id and whitespace
StartsNumbered(l) ==
    \E k \in 1..(Len(Strip(l)) - 1) :
        DottedNumeric(SubSeq(Strip(l), 1, k)) /\ IsSpace(Strip(l)[k + 1])

\* one of the first five lines holds 'contents' in any case
HasContentsHeading(lines) ==
    \E i \in 1..Len(lines) :
        /\ i <= 5
        /\ \E a \in 1..(Len(lines[i]) - 7) :
              Lower(SubSeq(lines[i], a, a + 7)) = <<"c", "o", "n", "t", "e", "n", "t", "s">>

\* page i of f is one of the first min(20, pageCount) pages and has the
\* heading or three numbered lines
Participates(f, i) ==
    /\ i <= 20
    /\ i <= Len(f.pages)
    /\ f.pages[i].kind = "text"
    /\ \/ HasContentsHeading(f.pages[i].lines)
       \/ Cardinality({j \in 1..Len(f.pages[i].lines) :
                           StartsNumbered(f.pages[i].lines[j])}) >= 3

\* f with every page beyond the twentieth, and every page with text that
\* does not take part, replaced by a page without text
Blanked(f) ==
    [f EXCEPT !.pages =
        [i \in 1..Len(f.pages) |->
            IF i > 20 \/ (f.pages[i].kind = "text" /\ ~Participates(f, i))
            THEN EmptyPage ELSE f.pages[i]]]

TocPassRan == pdf.state = "ok" /\ LogTocStart \in log

\* C24: only the first min(20, pageCount) pages that have a 'contents'
\* heading among their first 5 lines, or at least 3 lines starting with a
\* dotted-numeric id and whitespace, contribute to the ToC inventory: the
\* inventory is the one of the document in which every other page is blank,
\* and it is empty when no page takes part.
C24_OnlyTocPagesContribute ==
    TocPassRan =>
        /\ \E title \in {DocTitle, extract_document_title(pdf)} :
              toc_sections = extract_toc_from_pdf(Blanked(pdf), title).sections
        /\ toc_sections # <<>> =>
              \E i \in 1..Len(pdf.pages) : Participates(pdf, i)

\* the pass took the entries of a page with a heading and nothing from a
\* page with two entries and a page whose heading is on its sixth line
C24_Witness ==
    /\ TocPassRan
    /\ Len(pdf.pages) = 3
    /\ pdf.pages[1] = PTwoEntries
    /\ pdf.pages[2] = PToc
    /\ pdf.pages[3] = PLateHeading
    /\ Len(toc_sections) = 2
    /\ toc_sections[1].section_id = Id1
    /\ toc_sections[2].section_id = Id11

\* the ToC page is page 21 of the document and the inventory is empty
C24_WitnessBeyondLookahead ==
    /\ TocPassRan
    /\ Len(pdf.pages) = 21
    /\ pdf.pages[21] = PToc
    /\ toc_sections = <<>>

(***************************************************************************)
(* The page of a recognized section (usb_pd_parser.py lines 128-166 and    *)
(* 248-276).                                                               *)
(***************************************************************************)
\* the number that ends the line, -1 when the line does not end in a digit
EmbeddedPage(l) ==
    LET s == Strip(l)
        d == {i \in 1..Len(s) : \A j \in i..Len(s) : IsDigit(s[j])}
    IN  IF d = {} THEN -1 ELSE ParseInt(SubSeq(s, Min(d), Len(s)))

\* C25: a section recognized by the ToC patterns has as page the number at
\* the end of the line, whatever page is being scanned; a section recognized
\* by the full-body header parse has as page the page being scanned, also
\* when the line ends with another number.
C25_TocPageEmbeddedBodyPageScanned ==
    /\ recognizer = "toc" =>
          \A i \in 1..Len(sections) : sections[i].page = EmbeddedPage(line)
    /\ recognizer = "body" =>
          \A i \in 1..Len(sections) : sections[i].page = page_num

\* the full-body parse read a line that ends with 11 on page 1 and gave
\* page 1
C25_Witness ==
    /\ recognizer = "body"
    /\ page_num = 1
    /\ EmbeddedPage(line) = 11
    /\ Len(sections) = 1
    /\ sections[1].page = 1

\* the ToC patterns read a line that ends with 11 on page 1 and gave page 11
C25_WitnessToc ==
    /\ recognizer = "toc"
    /\ page_num = 1
    /\ Len(sections) = 1
    /\ sections[1].page = 11

(***************************************************************************)
(* What a clean validation tells about the inventory                       *)
(* (hierarchy_validator.py lines 27-120).                                  *)
(***************************************************************************)
NoDefects ==
    /\ Validated
    /\ "error" \notin DOMAIN hierarchy_result
    /\ hierarchy_result.orphaned_sections = <<>>
    /\ hierarchy_result.level_inconsistencies = <<>>
    /\ hierarchy_result.parent_child_mismatches = <<>>

\* section_id without its last dot-component, None when it has no dot
IdPrefix(id) ==
    LET dots == {i \in 1..Len(id) : id[i] = "."}
    IN  IF dots = {} THEN None ELSE SubSeq(id, 1, Max(dots) - 1)

\* C26 as stated: when validate reports no orphaned section, no level
\* inconsistency and no parent/child mismatch, every section with level
\* greater than 1 has a parent_id and every parent_id is the section_id
\* without its last dot-component.
C26_CleanMeansWellFormed ==
    NoDefects =>
        \A i \in 1..Len(spec_file) :
            /\ spec_file[i].level > 1 => HasParent(spec_file[i])
            /\ HasParent(spec_file[i]) =>
                  spec_file[i].parent_id = IdPrefix(spec_file[i].section_id)

\* C26, amended: when validate reports no error and no defect, every
\* section has level = dots(section_id) + 1, and every section with a
\* non-empty parent_id has a section of that id in the inventory whose
\* level is one less than its own.
C26_CleanMeansLevelsAndParentsFit ==
    NoDefects =>
        \A i \in 1..Len(spec_file) :
            /\ spec_file[i].level = Dots(spec_file[i].section_id) + 1
            /\ HasParent(spec_file[i]) =>
                  \E j \in 1..Len(spec_file) :
                      /\ spec_file[j].section_id = spec_file[i].parent_id
                      /\ spec_file[j].level = spec_file[i].level - 1

\* validate found no defect in "1.1" filed under "2" at fitting levels
C26_Witness ==
    /\ NoDefects
    /\ spec_file = MisparentedSections
    /\ spec_file[2].parent_id # IdPrefix(spec_file[2].section_id)
    /\ hierarchy_result.total_sections = 2

(***************************************************************************)
(* Ids of the candidate inventory across gap-filling passes                *)
(* (pdf_parser/content_enhancer.py lines 175-196 and 198-256).             *)
(***************************************************************************)
\* C27: a gap-filling pass on a candidate inventory whose section_ids are
\* unique leaves a candidate inventory whose section_ids are unique: no
\* synthesized section has the section_id of a record of the candidate or
\* of another synthesized section.
C27_GapFillKeepsIdsUnique ==
    [][(passes' # passes /\ UniqueIds(spec_file)) => UniqueIds(spec_file')]_vars

(***************************************************************************)
(* One ContentEnhancer of the root content_enhancer.py and the calls made  *)
(* on it: analyze_coverage and extract_missing_content.  spec_sections is  *)
(* the list in memory, spec_file the file it is saved to, missing_pages    *)
(* the attribute that only analyze_coverage assigns.  covered_pages only   *)
(* grows and spec_sections only grows, so at every call of                 *)
(* analyze_coverage it is the set of pages of spec_sections.  A call that  *)
(* raises ends the use of the instance.  passes counts the calls of        *)
(* extract_missing_content since the last analyze_coverage.                *)
(***************************************************************************)
InitEnhancer ==
    /\ pdf \in {f \in EnhanceFiles : f.state # "missing"}
    /\ pdf_text = [p \in 1..Len(pdf.pages) |-> JoinLines(pdf.pages[p].lines)]
    /\ toc_file \in EnhanceTocs
    /\ spec_file \in EnhanceSpecs
    /\ spec_sections = spec_file
    /\ line = <<>>
    /\ page_num = 0
    /\ recognizer = "none"
    /\ sections = <<>>
    /\ hierarchy_result = NoResult
    /\ metrics = NoMetrics
    /\ coverage = NoCoverage
    /\ written = <<>>
    /\ returned = 0
    /\ passes = 0
    /\ toc_sections = <<>>
    /\ missing_pages = {}
    /\ readable = TRUE
    /\ raised = NoException
    /\ exit_status = -1
    /\ printed = "none"
    /\ validation_result = NoValidation
    /\ response = NoResponse
    /\ runs = 0
    /\ artifacts = NoArtifacts
    /\ log = {}
    /\ enhancements = 0
    /\ jobs = NoJobs

EnhancerFrame ==
    UNCHANGED <<line, page_num, recognizer, sections, toc_file,
                hierarchy_result, metrics, coverage, pdf_text, pdf,
                toc_sections, readable, exit_status, printed,
                validation_result, response, runs, artifacts, log,
                enhancements, jobs>>

\* enhancer.analyze_coverage(): missing_pages is assigned before the
\* percentage is computed, which divides by total_pages
EnhancerAnalyzeCoverage ==
    /\ raised = NoException
    /\ IF pdf.state # "ok"
       THEN /\ raised' = "Exception"
            /\ UNCHANGED missing_pages
       ELSE /\ missing_pages' = (1..Len(pdf.pages)) \ PagesOf(spec_sections)
            /\ raised' = IF Len(pdf.pages) = 0 THEN "ZeroDivisionError"
                         ELSE NoException
    /\ passes' = 0
    /\ UNCHANGED <<spec_sections, spec_file, written, returned>>
    /\ EnhancerFrame

\* enhancer.extract_missing_content(): returned is the number of new
\* sections, 0 also for the bare return when no page is missing
EnhancerExtractMissingContent ==
    /\ raised = NoException
    /\ passes < MaxPasses
    /\ passes' = passes + 1
    /\ IF missing_pages = {}
       THEN /\ written' = <<>>
            /\ returned' = 0
            /\ UNCHANGED <<spec_sections, spec_file, raised>>
       ELSE \E scan \in {ScanPages(pdf.pages, missing_pages, spec_sections,
                                    _extract_section_ids(spec_sections))} :
            IF scan.failed
            THEN /\ raised' = "Exception"
                 /\ UNCHANGED <<spec_sections, spec_file, written, returned>>
            ELSE IF SortRaises(spec_sections \o scan.sections)
            THEN /\ raised' = "TypeError"
                 /\ spec_sections' = spec_sections \o scan.sections
                 /\ UNCHANGED <<spec_file, written, returned>>
            ELSE /\ raised' = NoException
                 /\ spec_sections' = SortSections(spec_sections \o scan.sections)
                 /\ spec_file' = IF scan.sections # <<>>
                                 THEN SortSections(spec_sections \o scan.sections)
                                 ELSE spec_file
                 /\ written' = scan.sections
                 /\ returned' = Len(scan.sections)
    /\ UNCHANGED missing_pages
    /\ EnhancerFrame

NextEnhancer ==
    \/ EnhancerAnalyzeCoverage
    \/ EnhancerExtractMissingContent

SpecEnhancer == InitEnhancer /\ [][NextEnhancer]_vars

\* C28: after analyze_coverage, the second of two calls of
\* extract_missing_content in a row on one enhancer and an unchanged PDF
\* adds no section and leaves the candidate file as the first call left it.
C28_SecondCallAddsNothing ==
    [][(passes = 1 /\ passes' = 2 /\ raised' = NoException) =>
           /\ returned' = 0
           /\ written' = <<>>
           /\ spec_file' = spec_file]_vars

(***************************************************************************)
(* The document pass followed by gap-filling passes on the files it wrote  *)
(* (usb_pd_parser.py lines 392-406, pdf_parser/content_enhancer.py lines   *)
(* 198-256).  A page is a contents page, a body page, a page of 51         *)
(* characters without header, or a page without text.                      *)
(***************************************************************************)
DocumentPages == {PToc, PBody1, PLong, EmptyPage}

DocumentFiles ==
    {[state |-> "ok", pages |-> ps] : ps \in SeqsUpTo(DocumentPages, MaxPdfPages)}
        \cup {[state |-> "missing", pages |-> <<>>]}

InitDocument ==
    /\ pdf \in DocumentFiles
    /\ pdf_text = [p \in 1..Len(pdf.pages) |-> JoinLines(pdf.pages[p].lines)]
    /\ toc_file = <<>>
    /\ spec_file = <<>>
    /\ line = <<>>
    /\ spec_sections = <<>>
    /\ page_num = 0
    /\ recognizer = "none"
    /\ sections = <<>>
    /\ hierarchy_result = NoResult
    /\ metrics = NoMetrics
    /\ coverage = NoCoverage
    /\ written = <<>>
    /\ returned = 0
    /\ passes = 0
    /\ toc_sections = <<>>
    /\ missing_pages = {}
    /\ readable = TRUE
    /\ raised = NoException
    /\ exit_status = -1
    /\ printed = "none"
    /\ validation_result = NoValidation
    /\ response = NoResponse
    /\ runs = 0
    /\ artifacts = NoArtifacts
    /\ log = {}
    /\ enhancements = 0
    /\ jobs = NoJobs

\* a gap-filling pass on the two files process_pdf has written
GapFillWrittenFiles ==
    /\ artifacts.written
    /\ ExtractMissingContent

NextDocument ==
    \/ ProcessPdf
    \/ GapFillWrittenFiles

SpecDocument == InitDocument /\ [][NextDocument]_vars

\* C29: once process_pdf has written its outputs, total_sections of the
\* metadata record is the number of records of the full-body inventory file
\* and total_toc_sections the number of records of the ToC inventory file,
\* also after gap-filling passes have appended to the full-body inventory.
C29_MetadataCountsMatchFiles ==
    artifacts.written =>
        /\ artifacts.total_sections = Len(spec_file)
        /\ artifacts.total_toc_sections = Len(toc_file)

(***************************************************************************)
(* Upload jobs of server.py (parse_pdf, lines 141-192 and 194-298).  The   *)
(* server answers requests on threads, so the steps of two requests may    *)
(* interleave.  A request saves its PDF in a folder of its own, runs the   *)
(* parser, which writes its four files in the shared default location,    *)
(* copies these files into the job folder, reads the copies and answers.   *)
(* toc_file, spec_file and artifacts are the files of the default          *)
(* location.  As for ParsePdf, the parser either rejects the call of the   *)
(* endpoint or runs.                                                       *)
(***************************************************************************)
MaxJobs == 2

Jobs == 1..MaxJobs

JobPdfs ==
    {[state |-> "ok", pages |-> <<PToc>>],
     [state |-> "ok", pages |-> <<PBody2>>],
     [state |-> "ok", pages |-> <<PNumbered, PBody1>>]}

NoFolder == [copied |-> FALSE]

IdleJob ==
    [pc |-> "idle", pdf |-> NoPdf, folder |-> NoFolder, response |-> NoResponse]

\* the files process_pdf leaves in the default location for the PDF f
process_pdf(f) ==
    LET title == extract_document_title(f)
        toc   == extract_toc_from_pdf(f, title)
        all   == extract_all_sections_from_pdf(f, title)
    IN  [toc      |-> save_jsonl(toc.sections),
         spec     |-> save_jsonl(all.sections),
         metadata |->
             [written            |-> TRUE,
              doc_title          |-> title,
              total_toc_sections |-> Len(toc.sections),
              total_sections     |-> Len(all.sections),
              report             |->
                  generate_validation_report(toc.sections, all.sections)]]

InitJobs ==
    /\ jobs = [j \in Jobs |-> IdleJob]
    /\ pdf = NoPdf
    /\ pdf_text = NoText
    /\ toc_file = <<>>
    /\ spec_file = <<>>
    /\ artifacts = NoArtifacts
    /\ line = <<>>
    /\ spec_sections = <<>>
    /\ page_num = 0
    /\ recognizer = "none"
    /\ sections = <<>>
    /\ hierarchy_result = NoResult
    /\ metrics = NoMetrics
    /\ coverage = NoCoverage
    /\ written = <<>>
    /\ returned = 0
    /\ passes = 0
    /\ toc_sections = <<>>
    /\ missing_pages = {}
    /\ readable = TRUE
    /\ raised = NoException
    /\ exit_status = -1
    /\ printed = "none"
    /\ validation_result = NoValidation
    /\ response = NoResponse
    /\ runs = 0
    /\ log = {}
    /\ enhancements = 0

JobsFrame ==
    UNCHANGED <<line, page_num, recognizer, sections, spec_sections,
                hierarchy_result, metrics, coverage, pdf_text, written,
                returned, passes, pdf, toc_sections, missing_pages, readable,
                raised, exit_status, printed, validation_result, response,
                runs, log, enhancements>>

\* job_folder.mkdir and pdf_file.save(pdf_path)
JobSavePdf(j) ==
    /\ jobs[j].pc = "idle"
    /\ \E f \in JobPdfs :
          jobs' = [jobs EXCEPT ![j].pc = "saved", ![j].pdf = f]
    /\ UNCHANGED <<toc_file, spec_file, artifacts>>
    /\ JobsFrame

\* parser = USBPDParser(str(pdf_path)); parser.process_pdf()
JobRunParser(j) ==
    /\ jobs[j].pc = "saved"
    /\ \E parser_accepts \in BOOLEAN :
          IF parser_accepts
          THEN \E out \in {process_pdf(jobs[j].pdf)} :
                  /\ toc_file' = out.toc
                  /\ spec_file' = out.spec
                  /\ artifacts' = out.metadata
                  /\ jobs' = [jobs EXCEPT ![j].pc = "parsed"]
          ELSE /\ jobs' = [jobs EXCEPT
                              ![j].pc = "done",
                              ![j].response =
                                  parse_pdf("pdf", FALSE, <<>>, <<>>)]
               /\ UNCHANGED <<toc_file, spec_file, artifacts>>
    /\ JobsFrame

\* the four shutil.copy2 from the default location into the job folder
JobCopyFiles(j) ==
    /\ jobs[j].pc = "parsed"
    /\ jobs' = [jobs EXCEPT
                   ![j].pc = "copied",
                   ![j].folder = [copied   |-> artifacts.written,
                                  toc      |-> toc_file,
                                  spec     |-> spec_file,
                                  metadata |-> artifacts]]
    /\ UNCHANGED <<toc_file, spec_file, artifacts>>
    /\ JobsFrame

\* the copies are read and the counts and coverage are returned
JobRespond(j) ==
    /\ jobs[j].pc = "copied"
    /\ jobs' = [jobs EXCEPT
                   ![j].pc = "done",
                   ![j].response =
                       parse_pdf("pdf", TRUE, jobs[j].folder.toc,
                                 jobs[j].folder.spec)]
    /\ UNCHANGED <<toc_file, spec_file, artifacts>>
    /\ JobsFrame

NextJobs ==
    \/ \E j \in Jobs : JobSavePdf(j)
    \/ \E j \in Jobs : JobRunParser(j)
    \/ \E j \in Jobs : JobCopyFiles(j)
    \/ \E j \in Jobs : JobRespond(j)

SpecJobs == InitJobs /\ [][NextJobs]_vars

\* C30: a job that has copied its files holds in its folder the ToC
\* inventory, the full inventory, the metadata and the report of its own
\* PDF, and the counts and coverage it returns are those of its own PDF,
\* however the steps of the jobs interleave.
C30_JobHoldsItsOwnArtifacts ==
    \A j \in Jobs :
        /\ jobs[j].pc \in {"copied", "done"} /\ jobs[j].folder.copied =>
              /\ jobs[j].folder.toc = process_pdf(jobs[j].pdf).toc
              /\ jobs[j].folder.spec = process_pdf(jobs[j].pdf).spec
              /\ jobs[j].folder.metadata = process_pdf(jobs[j].pdf).metadata
        /\ jobs[j].pc = "done" /\ jobs[j].response.status = 200 =>
              jobs[j].response =
                  parse_pdf("pdf", TRUE, process_pdf(jobs[j].pdf).toc,
                            process_pdf(jobs[j].pdf).spec)

====
